---- MODULE Spec2Model ----
(***************************************************************************)
(* A model of lib/tools/system-calls.js of appium-adb: device discovery,   *)
(* command execution with retry, bridge restart and rediscovery.           *)
(*                                                                         *)
(* Text is modelled as a sequence of chunks: every chunk is a literal      *)
(* piece of text (a TLA+ string) and the text is their concatenation.      *)
(* The separators "\n" and "\t" and the blank " " are chunks of their own, *)
(* so that split, trim, indexOf and the regular expressions of the source  *)
(* are computed on the text and not assumed.                               *)
(*                                                                         *)
(* One control flow runs at a time (a session is used by one caller): the  *)
(* variable stack holds the functions that are awaiting, innermost last.   *)
(* Every action is the code that runs between two awaits of a function.    *)
(***************************************************************************)
EXTENDS Integers, Sequences, FiniteSets, TLC

VARIABLES
    suppressKillServer, \* this.suppressKillServer
    durations,          \* how long the process executions of this session may take
    avdOf,              \* the name of the AVD every emulator runs, by its port
    faults,             \* the errors the command executions of this session may fail with
    defaultArgs,        \* this.executable.defaultArgs
    curDeviceId,        \* this.curDeviceId
    emulatorPort,       \* this.emulatorPort
    picked,             \* the ids given to setDeviceId so far, recorded for the properties
    stack,              \* the awaiting functions, the running one last
    op,                 \* the operation the caller invoked last
    ret,                \* what the function that returned last returned or threw
    \* adbExec
    cmd,                \* its argument cmd
    optsTimeout,        \* opts.timeout
    tries,              \* retry's counter of attempts
    adbPc,              \* the await adbExec stands at
    e,                  \* the error caught by execFunc's catch
    \* getDevicesWithRetry
    timeoutMs,          \* its argument timeoutMs
    elapsed,            \* Date.now() - start
    waited,             \* Date.now() - start of the polling loop that is running
    gdwrPc,             \* the await getDevices stands at
    \* getRunningAVD
    avdName,            \* its argument avdName
    emulators,          \* the emulators it enumerates
    emIdx,              \* the place in emulators of the one it is asking
    avdPc,              \* the await getRunningAVD stands at
    presence,           \* whether every listing of the search listed an emulator that runs
                        \* avdName, and its console answered every time it was asked
    \* getRunningAVDWithRetry
    retryAvdName,       \* its argument avdName
    avdTimeoutMs,       \* its argument timeoutMs
    avdRetryPc,         \* the await getRunningAVDWithRetry stands at
    \* shell
    shellCmd,           \* its argument cmd
    shellPc,            \* the await shell stands at
    \* waitForEmulatorReady
    readyTimeoutMs,     \* its argument timeoutMs
    readyPc,            \* the await waitForEmulatorReady stands at
    \* launchAVD
    launchAvdName,      \* its argument avdName
    avdLaunchTimeout,   \* its argument avdLaunchTimeout
    avdReadyTimeout,    \* its argument avdReadyTimeout
    retryTimes,         \* its argument retryTimes
    launchTries,        \* the attempts of its retry so far
    launchPc,           \* the await launchAVD stands at
    \* waitForDevice
    appDeviceReadyTimeout, \* this.appDeviceReadyTimeout
    wfdTries,           \* the attempts of its retry so far
    wfdErr,             \* the error its catch caught
    wfdPc,              \* the await waitForDevice stands at
    \* reboot
    bootReads,          \* the attempts of its retryInterval so far
    rebootPc,           \* the await reboot stands at
    \* ls
    lsResult,           \* what ls returned last, recorded for the properties
    trace,              \* what the operation in progress did so far, recorded for the properties
    \* the other control flows of the session
    suspended,          \* the operations that wait at an await while another runs
    \* getPortFromEmulatorString, called on its own
    emStr,              \* its argument
    portResult,         \* its result
    \* what happened, recorded for the properties
    execCount,          \* executions of cmd by the current adbExec call
    execLog,            \* outcome of each of these executions
    lastStdout,         \* stdout of the listing that has just ended, if it had one
    recovery,           \* what execFunc's catch did since the last failed execution
    restarted,          \* restartAdb was called since the last execution of cmd
    prevOutcome,        \* outcome of the previous listing of this rediscovery pass
    sinceListing,       \* what getDevices did since that listing
    checkedAt,          \* elapsed at the last deadline check that passed
    killResult,         \* how kill-server ended, if it was executed since the last listing
    killFailLogged      \* log.error of restartAdb was called since the last listing

vars == <<suppressKillServer, durations, avdOf, faults, defaultArgs, curDeviceId, emulatorPort, picked,
          stack, op, ret, cmd, optsTimeout, tries, adbPc, e, timeoutMs, elapsed, waited, gdwrPc, emStr, portResult, execCount,
          execLog, lastStdout, recovery, restarted, prevOutcome, sinceListing,
          checkedAt, killResult, killFailLogged, avdName, emulators, emIdx, avdPc,
          presence, retryAvdName, avdTimeoutMs, avdRetryPc, suspended,
          shellCmd, shellPc, readyTimeoutMs, readyPc, avdLaunchTimeout, avdReadyTimeout,
          retryTimes, launchTries, launchPc, launchAvdName, appDeviceReadyTimeout, wfdTries, wfdErr, wfdPc,
          bootReads, rebootPc, lsResult, trace>>

----------------------------------------------------------------------------
(* Bounds of the model *)

\* longest emulator string given to getPortFromEmulatorString, in chunks
MaxIdLen == 4
\* most lines of a bridge output given to getConnectedDevices
MaxLines == 3
\* longest time a process execution takes, in ms
MaxExecMs == 10000
\* most calls of setDeviceId in a session
MaxSelections == 2

----------------------------------------------------------------------------
(* Text *)

LF == "\n"
TAB == "\t"
SP == " "
Whitespace == {LF, TAB, SP}

\* the value undefined of JavaScript, where a text is expected
Undefined == <<"undefined">>

\* s.indexOf(c), counted from 1; 0 when c does not occur
IndexOf(s, c) ==
    IF \E i \in 1..Len(s) : s[i] = c
    THEN CHOOSE i \in 1..Len(s) : s[i] = c /\ \A j \in 1..(i - 1) : s[j] # c
    ELSE 0

\* s.split(sep): the pieces between the separators, empty pieces included
RECURSIVE Split(_, _)
Split(s, sep) ==
    LET i == IndexOf(s, sep)
    IN  IF i = 0 THEN <<s>>
        ELSE <<SubSeq(s, 1, i - 1)>> \o Split(SubSeq(s, i + 1, Len(s)), sep)

\* s.trim()
RECURSIVE TrimLeft(_)
TrimLeft(s) ==
    IF s # <<>> /\ Head(s) \in Whitespace THEN TrimLeft(Tail(s)) ELSE s

RECURSIVE TrimRight(_)
TrimRight(s) ==
    IF s # <<>> /\ s[Len(s)] \in Whitespace
    THEN TrimRight(SubSeq(s, 1, Len(s) - 1)) ELSE s

Trim(s) == TrimRight(TrimLeft(s))

\* lines joined by "\n"
RECURSIVE Join(_)
Join(ls) ==
    IF ls = <<>> THEN <<>>
    ELSE IF Len(ls) = 1 THEN ls[1]
    ELSE ls[1] \o <<LF>> \o Join(Tail(ls))

\* all sequences over S of length at most n
SeqsUpTo(S, n) == UNION {[1..k -> S] : k \in 0..n}

----------------------------------------------------------------------------
(* getPortFromEmulatorString *)

Digits == {"0", "1", "2", "3", "4", "5", "6", "7", "8", "9"}

DigitValue(c) ==
    CASE c = "0" -> 0 [] c = "1" -> 1 [] c = "2" -> 2 [] c = "3" -> 3
      [] c = "4" -> 4 [] c = "5" -> 5 [] c = "6" -> 6 [] c = "7" -> 7
      [] c = "8" -> 8 [] c = "9" -> 9

\* parseInt(ds, 10) of a text of digits
RECURSIVE parseInt(_)
parseInt(ds) ==
    IF ds = <<>> THEN 0
    ELSE parseInt(SubSeq(ds, 1, Len(ds) - 1)) * 10 + DigitValue(ds[Len(ds)])

\* the return value false of getPortFromEmulatorString
NoPort == -1

\* the value null of this.emulatorPort
NullPort == -2
\* the value null of this.curDeviceId
Null == <<"null">>

\* if (port): false and 0 are falsy
Truthy(port) == port # NoPort /\ port # 0

\* the positions where /emulator-(\d+)/ matches: "emulator-" and a digit after it
portPatternAt(s) ==
    {i \in 1..(Len(s) - 1) : s[i] = "emulator-" /\ s[i + 1] \in Digits}

\* group 1 of the leftmost match: the longest run of digits after "emulator-"
portPatternGroup(s) ==
    LET i == CHOOSE i \in portPatternAt(s) : \A j \in portPatternAt(s) : i <= j
        last == CHOOSE k \in (i + 1)..Len(s) :
                    /\ \A j \in (i + 1)..k : s[j] \in Digits
                    /\ (k = Len(s) \/ s[k + 1] \notin Digits)
    IN  SubSeq(s, i + 1, last)

getPortFromEmulatorString(s) ==
    IF portPatternAt(s) # {} THEN parseInt(portPatternGroup(s)) ELSE NoPort

----------------------------------------------------------------------------
(* Values returned and thrown *)

\* from: the function that returned or threw
NoRet == [from |-> "none", status |-> "none", val |-> <<>>, msg |-> <<>>]
Ok(v) == [from |-> "none", status |-> "ok", val |-> v, msg |-> <<>>]
\* an Error with message m
Err(m) == [from |-> "none", status |-> "err", val |-> <<>>, msg |-> m]
\* r as returned or thrown by function f
From(f, r) == [r EXCEPT !.from = f]

\* log.errorAndThrow(m) logs m and throws an Error with message m
errorAndThrow(m) == Err(m)

----------------------------------------------------------------------------
(* getConnectedDevices: what it makes of the output of `adb devices` *)

Header == "List of devices"
DaemonNotice == "* daemon"
Offline == "offline"

UnexpectedOutputMsg == "Unexpected output while trying to get devices. output was: "
GetDevicesErrorMsg == "Error while getting connected devices. Original error: "

\* the condition of lines 96-99
keepLine(line) ==
    /\ Trim(line) # <<>>
    /\ IndexOf(line, Header) = 0
    /\ IndexOf(line, DaemonNotice) = 0
    /\ IndexOf(line, Offline) = 0

\* lines 100-102: {udid: lineInfo[0], state: lineInfo[1]}
deviceOfLine(line) ==
    LET lineInfo == Split(line, TAB)
    IN  [udid |-> lineInfo[1],
         state |-> IF Len(lineInfo) >= 2 THEN lineInfo[2] ELSE Undefined]

\* lines 93-104 on the output sliced at the header
devicesOfOutput(sliced) ==
    LET kept == SelectSeq(Split(sliced, LF), keepLine)
    IN  [i \in 1..Len(kept) |-> deviceOfLine(kept[i])]

\* lines 88-109 given the stdout of the process
parseDevices(stdout) ==
    LET startingIndex == IndexOf(stdout, Header)
    IN  IF startingIndex = 0
        THEN errorAndThrow(<<GetDevicesErrorMsg, UnexpectedOutputMsg>> \o stdout)
        ELSE Ok(devicesOfOutput(SubSeq(stdout, startingIndex, Len(stdout))))

\* lines 108-109 when the process itself fails with error err
devicesExecFailed(err) == errorAndThrow(<<GetDevicesErrorMsg>> \o err.msg)

----------------------------------------------------------------------------
(* getConnectedEmulators: lines 231-240 on the devices listed *)

GetEmulatorsErrorMsg == "Error getting emulators. Original error: "

isEmulator(device) == Truthy(getPortFromEmulatorString(device.udid))

emulatorsOf(devices) ==
    LET kept == SelectSeq(devices, isEmulator)
    IN  [i \in 1..Len(kept) |->
            [udid |-> kept[i].udid, state |-> kept[i].state,
             port |-> getPortFromEmulatorString(kept[i].udid)]]

----------------------------------------------------------------------------
(* adbExec: cleaning of stdout and classification of errors *)

LinkerWarning == "WARNING: linker"

\* the places where /^WARNING: linker.+$/m matches: at the start of a line,
\* with at least one character after it on that line
linkerWarningAt(s) ==
    {i \in 1..(Len(s) - 1) :
        /\ s[i] = LinkerWarning
        /\ (i = 1 \/ s[i - 1] = LF)
        /\ s[i + 1] # LF}

\* stdout.replace(linkerWarningRe, ''): the leftmost match is removed, to the
\* end of its line
removeLinkerWarning(s) ==
    IF linkerWarningAt(s) = {} THEN s
    ELSE LET i == CHOOSE i \in linkerWarningAt(s) : \A j \in linkerWarningAt(s) : i <= j
             rest == SubSeq(s, i, Len(s))
             eol == IndexOf(rest, LF)
         IN  SubSeq(s, 1, i - 1) \o
             (IF eol = 0 THEN <<>> ELSE SubSeq(rest, eol, Len(rest)))

\* lines 166-167
cleanStdout(stdout) == Trim(removeLinkerWarning(stdout))

\* String.prototype.toLowerCase on the chunks an error text is made of
toLowerCase(c) ==
    CASE c = "Protocol Fault (No Status)" -> "protocol fault (no status)"
      [] c = "ERROR: DEVICE NOT FOUND" -> "error: device not found"
      [] c = "Error: " -> "error: "
      [] OTHER -> c

\* String(err): "Error: " followed by the message
errorString(err) == <<"Error: ">> \o err.msg

\* new RegExp(pattern, "i").test(text) for a pattern that is literal text
testIgnoreCase(pattern, text) ==
    \E i \in 1..Len(text) : toLowerCase(text[i]) = pattern

\* the pattern of line 170 tested without the flag "i"
protocolFaultErrorCaseSensitive(err) ==
    \E i \in 1..Len(errorString(err)) : errorString(err)[i] = "protocol fault (no status)"

\* line 170
protocolFaultError(err) == testIgnoreCase("protocol fault (no status)", errorString(err))
\* line 171
deviceNotFoundError(err) == testIgnoreCase("error: device not found", errorString(err))

AdbExecErrorMsg == "Error executing adbExec. Original error: "
\* JSON.stringify(e) of the error caught
JsonOfError == "JSON.stringify(e)"

\* lines 177-178
adbExecError(err) == errorAndThrow(<<AdbExecErrorMsg>> \o err.msg \o <<JsonOfError>>)

NoCommandMsg == "You need to pass in a command to adbExec()"
NoDeviceMsg == "Could not find a connected Android device."

----------------------------------------------------------------------------
(* Program constants *)

\* getDevicesWithRetry (timeoutMs = 20000)
DefaultTimeoutMs == 20000
\* sleep(200), the cool down of getDevices
CoolDownMs == 200
\* opts.timeout = opts.timeout || 20000
DefaultExecTimeout == 20000
\* sleep(1000) of execFunc's catch
ReconnectSleepMs == 1000
\* retry(2, execFunc)
RetryTimes == 2

----------------------------------------------------------------------------
(* What the caller and the environment choose *)

\* a command given as one string, and one given as an array
Str(c) == [array |-> FALSE, items |-> <<c>>]
Arr(cs) == [array |-> TRUE, items |-> cs]
\* !cmd
Falsy(c) == ~c.array /\ c.items = <<"">>

\* the calls of adbExec: cmd and opts.timeout (0: no timeout given)
AdbExecCalls ==
    { <<Str(""), 0>>, <<Str("wait-for-device"), 10000>>, <<Arr(<<"shell", "ls">>), 0>> }

\* what a command prints when it succeeds
CmdOutputs ==
    { <<"ok">>,
      <<>>,
      <<LinkerWarning, ": libdvm.so has text relocations", LF, "ok", LF>>,
      <<SP, LinkerWarning, SP, LF, LinkerWarning, ": a", LF, LinkerWarning, ": b">> }

\* the paths given to ls: one that does not exist on the device, and a directory
MissingPath == "/sdcard/missing"
DirPath == "/sdcard/Download"
LsPaths == {MissingPath, DirPath}

\* what `shell ls` prints of a path that does not exist
MissingOutputs ==
    { <<MissingPath, ":", SP, "No such file", " or directory">>,
      <<"ls:", SP, MissingPath, ":", SP, "No such file", " or directory", LF>>,
      <<LinkerWarning, ": libdvm.so has text relocations", LF,
        MissingPath, ":", SP, "No such file", " or directory", LF>> }

\* what `shell ls` prints of the directory
DirOutputs ==
    { <<>>,
      <<"a.txt", LF, "b.txt", LF>>,
      <<SP, "a.txt", SP, LF, TAB, LF, LF, "No such file", LF, "b", SP, "c.txt", SP, LF>> }

\* what `shell getprop init.svc.bootanim` prints
BootAnimOutputs ==
    { <<"stopped">>, <<"running">>, <<>>,
      <<LinkerWarning, ": libdvm.so has text relocations", LF, "stopped", LF>> }

\* what the command c prints when it succeeds: `shell stop` and `shell start`
\* print nothing
StdoutsOf(c) ==
    IF c.items \in {<<"shell", "stop">>, <<"shell", "start">>, <<"wait-for-device">>} THEN {<<>>}
    ELSE IF c.items = <<"shell", "getprop", "init.svc.bootanim">> THEN BootAnimOutputs
    ELSE IF c.items = <<"shell", "ls", MissingPath>> THEN MissingOutputs
    ELSE IF c.items = <<"shell", "ls", DirPath>> THEN DirOutputs
    ELSE CmdOutputs

\* the errors a process execution fails with
ExecErrors ==
    { [msg |-> <<"error: device not found">>],
      [msg |-> <<"Command failed: ", "Protocol Fault (No Status)">>],
      [msg |-> <<"exited with code 1">>] }

\* one error of each class
TwoErrors == { [msg |-> <<"error: device not found">>], [msg |-> <<"exited with code 1">>] }

NoError == [msg |-> <<>>]

\* the error `adb devices` fails with
DevicesErrors == { [msg |-> <<"exited with code 1">>] }

\* how long a process execution takes
ExecDurations == {0, MaxExecMs}

\* the timeoutMs given to getDevicesWithRetry (DefaultTimeoutMs: none given)
GdwrTimeouts == {0, 2 * CoolDownMs, DefaultTimeoutMs}

\* lines of the output of `adb devices`
HeaderLine == <<Header, SP, "attached">>
LineSet ==
    { HeaderLine,
      <<>>,
      <<TAB>>,
      <<DaemonNotice, SP, "started successfully *">>,
      <<"emulator-", "5", "5", "5", "4", TAB, "device">>,
      <<"emulator-", "0", TAB, "device">>,
      <<"emulator-", "5", "5", "5", "6", TAB, Offline>>,
      <<"HT4A1JT00001", TAB, "device">>,
      <<"HT4A1JT00002", TAB, "unauthorized">>,
      <<"lab-", Offline, "-box:5555", TAB, "device">>,
      <<"HT4A1JT00003">>,
      <<"error: cannot connect to daemon">> }

\* every output of at most MaxLines of these lines
AllOutputs == {Join(ls) : ls \in SeqsUpTo(LineSet, MaxLines)}

\* the outputs the session sees
DeviceOutputs ==
    { <<"error: cannot connect to daemon">>,
      Join(<<HeaderLine, <<"emulator-", "5", "5", "5", "6", TAB, Offline>>, <<>>>>),
      Join(<<HeaderLine, <<"emulator-", "5", "5", "5", "4", TAB, "device">>, <<>>>>),
      Join(<<<<DaemonNotice, SP, "started successfully *">>, HeaderLine,
             <<"HT4A1JT00001", TAB, "device">>,
             <<"emulator-", "5", "5", "5", "4", TAB, "device">>, <<>>>>) }

\* the outputs of `adb devices` while emulators are looked for
EmulatorOutputs ==
    { <<"error: cannot connect to daemon">>,
      Join(<<HeaderLine, <<"HT4A1JT00001", TAB, "device">>, <<>>>>),
      Join(<<HeaderLine, <<"HT4A1JT00001", TAB, "device">>,
             <<"emulator-", "5", "5", "5", "4", TAB, "device">>, <<>>>>),
      Join(<<HeaderLine, <<"emulator-", "5", "5", "5", "4", TAB, "device">>,
             <<"emulator-", "5", "5", "5", "6", TAB, "device">>, <<>>>>) }

\* the outputs of `adb devices` while operations are in progress at once
TwoEmulators ==
    { <<"error: cannot connect to daemon">>,
      Join(<<HeaderLine, <<"emulator-", "5", "5", "5", "4", TAB, "device">>,
             <<"emulator-", "5", "5", "5", "6", TAB, "device">>, <<>>>>) }

\* the names of AVDs: the ones asked for, and the ones the emulators report
AvdNames == { <<"Nexus5">>, <<"Pixel">> }
\* the ports of the emulators of these outputs
EmulatorPorts == {5554, 5556}
\* every emulator runs the AVD Pixel
OneAvd == [port \in EmulatorPorts |-> <<"Pixel">>]
\* the emulator listed second runs the AVD Nexus5
TwoAvds == [port \in EmulatorPorts |-> IF port = 5556 THEN <<"Nexus5">> ELSE <<"Pixel">>]
\* the avdName and timeoutMs given to getRunningAVDWithRetry
AvdRequests == { <<"Nexus5">>, <<"@", "Nexus5">> }
AvdTimeouts == {0, 2 * CoolDownMs}
\* the timeoutMs given to waitForEmulatorReady
ReadyTimeouts == {0, 2 * MaxExecMs}
\* the appDeviceReadyTimeout given to waitForDevice, in seconds
WfdTimeouts == {30, 60}
\* the retryTimes given to launchAVD
LaunchRetries == {0, 1, 2}

\* the error the console of an emulator fails with
TelnetErrors == { [msg |-> <<"connect ECONNREFUSED">>] }

\* the devices given to setDevice
Selectable ==
    { [udid |-> <<"emulator-", "5", "5", "5", "4">>, state |-> <<"device">>],
      [udid |-> <<"emulator-", "0">>, state |-> <<"device">>],
      [udid |-> <<"HT4A1JT00001">>, state |-> <<"device">>] }

\* the texts given to getPortFromEmulatorString
IdChunks == {"emulator-", "0", "5", "x"}
IdStrings == SeqsUpTo(IdChunks, MaxIdLen)

----------------------------------------------------------------------------
(* The session *)

configVars == <<suppressKillServer, durations, avdOf, faults>>
targetVars == <<defaultArgs, curDeviceId, emulatorPort, picked>>
sessionVars == <<configVars, targetVars>>
adbVars == <<cmd, optsTimeout, tries, adbPc, e>>
gdwrVars == <<timeoutMs, gdwrPc>>
portVars == <<emStr, portResult>>
avdVars == <<avdName, emulators, emIdx, avdPc, presence>>
avdRetryVars == <<retryAvdName, avdTimeoutMs, avdRetryPc>>
\* the state of the functions that are never in progress at once with another
shellVars == <<shellCmd, shellPc>>
readyVars == <<readyTimeoutMs, readyPc>>
launchVars == <<launchAvdName, avdLaunchTimeout, avdReadyTimeout, retryTimes, launchTries, launchPc>>
wfdVars == <<appDeviceReadyTimeout, wfdTries, wfdErr, wfdPc>>
rebootVars == <<bootReads, rebootPc>>
\* the state of the functions of lines 324-415
laterVars == <<launchVars, wfdVars, rebootVars, lsResult>>
pollVars == <<shellVars, readyVars, trace>>
loopVars == <<avdRetryVars, pollVars, laterVars>>
\* what the functions of lines 81-225 leave alone
outerVars == <<avdVars, suspended, loopVars>>
adbHist == <<execCount, execLog, recovery>>
gdwrHist == <<prevOutcome, sinceListing, checkedAt>>
killHist == <<killResult, killFailLogged>>

Idle == stack = <<>>
Running(f) == stack # <<>> /\ stack[Len(stack)] = f
InStack(f) == \E i \in 1..Len(stack) : stack[i] = f
Caller == IF Len(stack) >= 2 THEN stack[Len(stack) - 1] ELSE "none"
Popped == SubSeq(stack, 1, Len(stack) - 1)

\* what is recorded of a sleep and of a call
SleepEv(ms) == [ev |-> "sleep", ms |-> ms]
CallEv(f) == [ev |-> f, ms |-> 0]

\* d ms pass: Date.now() - start grows while getDevicesWithRetry is running, and
\* so does the one of the polling loop that is running
Timed == InStack("getRunningAVDWithRetry") \/ InStack("waitForEmulatorReady")
Tick(d) ==
    /\ elapsed' = IF InStack("getDevicesWithRetry") THEN elapsed + d ELSE elapsed
    /\ waited' = IF Timed THEN waited + d ELSE waited

\* the state of a function that is not running, and the records of a new call
NewCall ==
    /\ execCount' = 0 /\ execLog' = <<>> /\ recovery' = <<>> /\ restarted' = FALSE
    /\ prevOutcome' = "none" /\ sinceListing' = <<>> /\ checkedAt' = 0
    /\ elapsed' = 0 /\ waited' = 0 /\ lastStdout' = Undefined
    /\ killResult' = "none" /\ killFailLogged' = FALSE

\* a new session, on which nothing was called
NewSession ==
    /\ suppressKillServer \in BOOLEAN
    /\ defaultArgs = <<>> /\ curDeviceId = Null /\ emulatorPort = NullPort /\ picked = <<>>
    /\ stack = <<>> /\ op = "none" /\ ret = NoRet
    /\ cmd = Str("") /\ optsTimeout = 0 /\ tries = 0 /\ adbPc = "done" /\ e = NoError
    /\ timeoutMs = 0 /\ elapsed = 0 /\ waited = 0 /\ gdwrPc = "done"
    /\ portResult = NoPort
    /\ avdName = <<>> /\ emulators = <<>> /\ emIdx = 0 /\ avdPc = "done"
    /\ presence = "none"
    /\ retryAvdName = <<>> /\ avdTimeoutMs = 0 /\ avdRetryPc = "done"
    /\ shellCmd = <<>> /\ shellPc = "done"
    /\ readyTimeoutMs = 0 /\ readyPc = "done"
    /\ avdLaunchTimeout = 0 /\ avdReadyTimeout = 0 /\ retryTimes = 0
    /\ launchTries = 0 /\ launchPc = "done" /\ launchAvdName = <<>>
    /\ appDeviceReadyTimeout = 0 /\ wfdTries = 0 /\ wfdErr = NoRet /\ wfdPc = "done"
    /\ bootReads = 0 /\ rebootPc = "done"
    /\ lsResult = <<>> /\ trace = <<>>
    /\ suspended = <<>>
    /\ execCount = 0 /\ execLog = <<>> /\ lastStdout = Undefined
    /\ recovery = <<>> /\ restarted = FALSE
    /\ prevOutcome = "none" /\ sinceListing = <<>> /\ checkedAt = 0
    /\ killResult = "none" /\ killFailLogged = FALSE

Init == NewSession /\ emStr = <<>> /\ durations = ExecDurations /\ avdOf = OneAvd
    /\ faults = ExecErrors

----------------------------------------------------------------------------
(* getPortFromEmulatorString, lines 219-225 *)

\* the function is applied to the text emStr
CallGetPortFromEmulatorString ==
    /\ Idle /\ op = "none"
    /\ op' = "getPortFromEmulatorString"
    /\ portResult' = getPortFromEmulatorString(emStr)
    /\ UNCHANGED <<sessionVars, outerVars, stack, ret, adbVars, gdwrVars, elapsed, waited, emStr, adbHist,
                   restarted, lastStdout, gdwrHist, killHist>>

----------------------------------------------------------------------------
(* setEmulatorPort, setDeviceId and setDevice, lines 246-261 *)

setEmulatorPort(emPort) == emulatorPort' = emPort

\* a setDeviceId that replaces the scoping arguments
setDeviceIdReplacing(deviceId) ==
    /\ curDeviceId' = deviceId
    /\ defaultArgs' = <<<<"-s">>, deviceId>>
    /\ picked' = Append(picked, deviceId)

\* a setDeviceId that is overtaken before it has pushed the arguments
setDeviceIdHalf(deviceId) ==
    /\ curDeviceId' = deviceId
    /\ picked' = Append(picked, deviceId)
    /\ UNCHANGED defaultArgs

\* this.curDeviceId = deviceId; this.executable.defaultArgs.push("-s", deviceId)
setDeviceId(deviceId) ==
    /\ curDeviceId' = deviceId
    /\ defaultArgs' = defaultArgs \o <<<<"-s">>, deviceId>>
    /\ picked' = Append(picked, deviceId)

setDevice(deviceObj) ==
    LET deviceId == deviceObj.udid
        emPort == getPortFromEmulatorString(deviceId)
    IN  /\ setEmulatorPort(emPort)
        /\ setDeviceId(deviceId)

\* setDevice is called, and returns without an await
CallSetDevice(deviceObj) ==
    /\ Idle
    /\ Len(picked) < MaxSelections
    /\ op' = "setDevice"
    /\ setDevice(deviceObj)
    /\ ret' = From("setDevice", Ok(Undefined))
    /\ NewCall
    /\ UNCHANGED <<configVars, outerVars, stack, adbVars, gdwrVars, portVars>>

----------------------------------------------------------------------------
(* getConnectedDevices, lines 81-111 *)

CallGetConnectedDevices ==
    /\ Idle
    /\ op' = "getConnectedDevices"
    /\ stack' = <<"getConnectedDevices">>
    /\ ret' = NoRet
    /\ NewCall
    /\ UNCHANGED <<sessionVars, outerVars, adbVars, gdwrVars, portVars>>

\* exec(this.executable.path, ['devices']) ends, with an output of outs or with
\* an error, and the function returns or throws
GetConnectedDevicesExec(outs) ==
    /\ Running("getConnectedDevices")
    /\ \E d \in durations : Tick(d)
    /\ \/ \E stdout \in outs :
            /\ lastStdout' = stdout
            /\ ret' = From("getConnectedDevices", parseDevices(stdout))
       \/ \E err \in DevicesErrors :
            /\ ret' = From("getConnectedDevices", devicesExecFailed(err))
            /\ UNCHANGED lastStdout
    /\ stack' = Popped
    /\ UNCHANGED <<sessionVars, outerVars, op, adbVars, gdwrVars, portVars, adbHist, restarted,
                   gdwrHist, killHist>>

----------------------------------------------------------------------------
(* getConnectedEmulators, lines 227-244 *)

CallGetConnectedEmulators ==
    /\ Idle
    /\ op' = "getConnectedEmulators"
    /\ stack' = <<"getConnectedEmulators", "getConnectedDevices">>
    /\ ret' = NoRet
    /\ NewCall
    /\ UNCHANGED <<sessionVars, outerVars, adbVars, gdwrVars, portVars>>

\* getConnectedDevices has returned or thrown
GetConnectedEmulatorsDone ==
    /\ Running("getConnectedEmulators")
    /\ ret' = From("getConnectedEmulators",
                   IF ret.status = "ok" THEN Ok(emulatorsOf(ret.val))
                   ELSE errorAndThrow(<<GetEmulatorsErrorMsg>> \o ret.msg))
    /\ stack' = Popped
    /\ UNCHANGED <<sessionVars, outerVars, op, adbVars, gdwrVars, elapsed, waited, portVars, adbHist,
                   restarted, lastStdout, gdwrHist, killHist>>

----------------------------------------------------------------------------
(* restartAdb, lines 141-149 *)

CallRestartAdb ==
    /\ Idle
    /\ op' = "restartAdb"
    /\ stack' = <<"restartAdb">>
    /\ ret' = NoRet
    /\ NewCall
    /\ UNCHANGED <<sessionVars, outerVars, adbVars, gdwrVars, portVars>>

\* the kill-server of restartAdb without the test of the flag
restartAdbKillUnguarded ==
    /\ \E d \in durations : Tick(d)
    /\ \/ killResult' = "ok" /\ killFailLogged' = FALSE
       \/ \E err \in ExecErrors : killResult' = "failed" /\ killFailLogged' = TRUE

\* if (!this.suppressKillServer): exec(this.executable.path, ['kill-server'])
\* ends, well or with an error that is logged
restartAdbKill ==
    /\ ~suppressKillServer
    /\ \E d \in durations : Tick(d)
    /\ \/ killResult' = "ok" /\ killFailLogged' = FALSE
       \/ \E err \in ExecErrors : killResult' = "failed" /\ killFailLogged' = TRUE

\* the flag is set: nothing is executed
restartAdbSuppressed ==
    /\ suppressKillServer
    /\ UNCHANGED <<killResult, elapsed, waited>>
    /\ killFailLogged' = FALSE

RestartAdb ==
    /\ Running("restartAdb")
    /\ restartAdbKill \/ restartAdbSuppressed
    /\ ret' = From("restartAdb", Ok(Undefined))
    /\ stack' = Popped
    /\ restarted' = TRUE
    /\ sinceListing' = Append(sinceListing, CallEv("restartAdb"))
    /\ UNCHANGED <<sessionVars, outerVars, op, adbVars, gdwrVars, portVars, adbHist, lastStdout,
                   prevOutcome, checkedAt>>

----------------------------------------------------------------------------
(* getDevicesWithRetry, lines 113-139 *)

CallGetDevicesWithRetry(t) ==
    /\ Idle
    /\ op' = "getDevicesWithRetry"
    /\ stack' = <<"getDevicesWithRetry">>
    /\ ret' = NoRet
    /\ NewCall
    /\ timeoutMs' = t
    /\ gdwrPc' = "getDevices"
    /\ UNCHANGED <<sessionVars, outerVars, adbVars, portVars>>

\* a deadline that allows one cool down more
deadlinePassedLate == elapsed > timeoutMs + CoolDownMs

\* line 117
deadlinePassed == elapsed > timeoutMs

\* getDevices() is called: the deadline is checked, and getConnectedDevices is
\* called if it has not passed
GetDevices ==
    /\ Running("getDevicesWithRetry") /\ gdwrPc = "getDevices"
    /\ IF deadlinePassed
       THEN /\ ret' = From("getDevicesWithRetry", Err(<<NoDeviceMsg>>))
            /\ stack' = Popped
            /\ gdwrPc' = "done"
            /\ UNCHANGED checkedAt
       ELSE /\ stack' = Append(stack, "getConnectedDevices")
            /\ gdwrPc' = "gotDevices"
            /\ checkedAt' = elapsed
            /\ ret' = NoRet
    /\ killResult' = "none" /\ killFailLogged' = FALSE
    /\ UNCHANGED <<sessionVars, outerVars, op, adbVars, timeoutMs, elapsed, waited, portVars, adbHist,
                   restarted, lastStdout, prevOutcome, sinceListing>>

\* the restart without the test of line 122
needsRestartOnlyOnError == ret.status = "err"

\* devices.length < 1 (line 122), or getConnectedDevices threw (line 130)
needsRestart == ret.status = "err" \/ Len(ret.val) < 1

\* getConnectedDevices has returned or thrown: the devices are returned, or
\* restartAdb is called
GotDevices ==
    /\ Running("getDevicesWithRetry") /\ gdwrPc = "gotDevices"
    /\ prevOutcome' = IF ret.status = "err" THEN "threw"
                      ELSE IF Len(ret.val) < 1 THEN "empty" ELSE "found"
    /\ sinceListing' = <<>>
    /\ lastStdout' = Undefined
    /\ IF needsRestart
       THEN /\ stack' = Append(stack, "restartAdb")
            /\ gdwrPc' = "coolDown"
            /\ UNCHANGED ret
       ELSE /\ stack' = Popped
            /\ gdwrPc' = "done"
            /\ ret' = From("getDevicesWithRetry", ret)
    /\ UNCHANGED <<sessionVars, outerVars, op, adbVars, timeoutMs, elapsed, waited, portVars, adbHist,
                   restarted, checkedAt, killHist>>

\* restartAdb has returned: sleep(200), then getDevices() again
CoolDown ==
    /\ Running("getDevicesWithRetry") /\ gdwrPc = "coolDown"
    /\ Tick(CoolDownMs)
    /\ sinceListing' = Append(sinceListing, SleepEv(CoolDownMs))
    /\ gdwrPc' = "getDevices"
    /\ UNCHANGED <<sessionVars, outerVars, stack, op, ret, adbVars, timeoutMs, portVars, adbHist,
                   restarted, lastStdout, prevOutcome, checkedAt, killHist>>

----------------------------------------------------------------------------
(* adbExec, lines 151-182 *)

CallAdbExec(c, t) ==
    /\ Idle
    /\ op' = "adbExec"
    /\ NewCall
    /\ cmd' = c
    /\ tries' = 0
    /\ e' = NoError
    /\ IF Falsy(c)
       THEN /\ ret' = From("adbExec", Err(<<NoCommandMsg>>))
            /\ stack' = <<>>
            /\ adbPc' = "done"
            /\ UNCHANGED optsTimeout
       ELSE /\ ret' = NoRet
            /\ stack' = <<"adbExec">>
            /\ adbPc' = "execFunc"
            /\ optsTimeout' = IF t = 0 THEN DefaultExecTimeout ELSE t
    /\ UNCHANGED <<sessionVars, outerVars, gdwrVars, portVars>>

\* the tokens of a command, each as a text
Texts(items) == [i \in 1..Len(items) |-> <<items[i]>>]

\* the arguments of the process: this.executable.defaultArgs.concat(cmd)
execArgs == defaultArgs \o Texts(cmd.items)

\* lines 170-172: the error is one that reconnecting may cure
connectionLost(err) == protocolFaultError(err) \/ deviceNotFoundError(err)

\* a retry that allows one attempt more
retryCatchOffByOne(thrown, n) ==
    IF n > RetryTimes
    THEN /\ ret' = From("adbExec", thrown)
         /\ stack' = Popped
         /\ adbPc' = "done"
    ELSE /\ adbPc' = "execFunc"
         /\ UNCHANGED <<ret, stack>>

\* a retry that throws the first error on
retryCatchNoRetry(thrown, n) ==
    /\ ret' = From("adbExec", thrown)
    /\ stack' = Popped
    /\ adbPc' = "done"

\* retry(2, execFunc) when attempt n of execFunc has thrown: the error is
\* thrown to the caller after the last attempt, and execFunc is called again
\* after any other
retryCatch(thrown, n) ==
    IF n >= RetryTimes
    THEN /\ ret' = From("adbExec", thrown)
         /\ stack' = Popped
         /\ adbPc' = "done"
    ELSE /\ adbPc' = "execFunc"
         /\ UNCHANGED <<ret, stack>>

\* the process ends well: the cleaned stdout is returned
execSucceeded(stdout) ==
    /\ execLog' = Append(execLog, [ok |-> TRUE, args |-> execArgs, text |-> stdout,
                                  deviceId |-> curDeviceId])
    /\ ret' = From("adbExec", Ok(cleanStdout(stdout)))
    /\ stack' = Popped
    /\ adbPc' = "done"
    /\ UNCHANGED e

\* the process fails with err: execFunc's catch
execFailed(err) ==
    /\ execLog' = Append(execLog, [ok |-> FALSE, args |-> execArgs, text |-> err.msg,
                                  deviceId |-> curDeviceId])
    /\ e' = err
    /\ IF connectionLost(err)
       THEN /\ adbPc' = "sleep"
            /\ UNCHANGED <<ret, stack>>
       ELSE retryCatch(adbExecError(err), tries + 1)

\* retry calls execFunc, and the process it executes ends
AdbExecRun ==
    /\ Running("adbExec") /\ adbPc = "execFunc"
    /\ tries' = tries + 1
    /\ execCount' = execCount + 1
    /\ recovery' = <<>>
    /\ restarted' = FALSE
    /\ \E d \in durations : Tick(d)
    /\ \/ \E stdout \in StdoutsOf(cmd) : execSucceeded(stdout)
       \/ \E err \in faults : execFailed(err)
    /\ UNCHANGED <<sessionVars, outerVars, op, cmd, optsTimeout, gdwrVars, portVars, lastStdout,
                   gdwrHist, killHist>>

\* sleep(1000) ends and getDevicesWithRetry() is called
AdbExecReconnect ==
    /\ Running("adbExec") /\ adbPc = "sleep"
    /\ recovery' = recovery \o <<SleepEv(ReconnectSleepMs), CallEv("getDevicesWithRetry")>>
    /\ adbPc' = "rediscovered"
    /\ stack' = Append(stack, "getDevicesWithRetry")
    /\ timeoutMs' = DefaultTimeoutMs
    /\ gdwrPc' = "getDevices"
    /\ elapsed' = 0
    /\ waited' = IF Timed THEN waited + ReconnectSleepMs ELSE waited
    /\ prevOutcome' = "none" /\ sinceListing' = <<>> /\ checkedAt' = 0
    /\ UNCHANGED <<sessionVars, outerVars, op, ret, cmd, optsTimeout, tries, e, portVars, execCount,
                   execLog, restarted, lastStdout, killHist>>

\* getDevicesWithRetry has returned or thrown: what it threw is thrown on, and
\* if it returned, line 177 throws the error of the command
AdbExecRediscovered ==
    /\ Running("adbExec") /\ adbPc = "rediscovered"
    /\ recovery' = Append(recovery, CallEv("returned"))
    /\ retryCatch(IF ret.status = "err" THEN ret ELSE adbExecError(e), tries)
    /\ elapsed' = 0
    /\ prevOutcome' = "none" /\ sinceListing' = <<>> /\ checkedAt' = 0
    /\ killResult' = "none" /\ killFailLogged' = FALSE
    /\ UNCHANGED <<sessionVars, outerVars, op, cmd, optsTimeout, tries, e, gdwrVars, portVars,
                   execCount, execLog, restarted, lastStdout, waited>>

----------------------------------------------------------------------------
(* getEmulatorPort, lines 201-217 *)

NoDevicesConnectedMsg == "No devices connected. Original error: "
PortNotFoundMsg == "Emulator port not found"
\* the message of the TypeError of devices[0].udid when devices is empty
NoFirstDeviceMsg == "Cannot read property 'udid' of undefined"

\* lines 203-207: the port of the session is returned if there is one, and
\* getConnectedDevices is called if not
CallGetEmulatorPort ==
    /\ Idle
    /\ op' = "getEmulatorPort"
    /\ IF emulatorPort # NullPort
       THEN /\ ret' = From("getEmulatorPort", Ok(emulatorPort))
            /\ UNCHANGED stack
       ELSE /\ ret' = NoRet
            /\ stack' = <<"getEmulatorPort", "getConnectedDevices">>
    /\ NewCall
    /\ UNCHANGED <<sessionVars, outerVars, adbVars, gdwrVars, portVars>>

\* lines 208-213 on the devices listed
portOfFirstDevice(devices) ==
    IF devices = <<>> THEN Err(<<NoFirstDeviceMsg>>)
    ELSE LET port == getPortFromEmulatorString(devices[1].udid)
         IN  IF Truthy(port) THEN Ok(port) ELSE Err(<<PortNotFoundMsg>>)

\* getConnectedDevices has returned or thrown: lines 208-216
GetEmulatorPortDone ==
    /\ Running("getEmulatorPort")
    /\ LET r == IF ret.status = "ok" THEN portOfFirstDevice(ret.val) ELSE ret
       IN  ret' = From("getEmulatorPort",
                       IF r.status = "ok" THEN r
                       ELSE errorAndThrow(<<NoDevicesConnectedMsg>> \o r.msg))
    /\ stack' = Popped
    /\ UNCHANGED <<sessionVars, outerVars, op, adbVars, gdwrVars, elapsed, waited, portVars,
                   adbHist, restarted, lastStdout, gdwrHist, killHist>>

----------------------------------------------------------------------------
(* sendTelnetCommand("avd name"): the console of the emulator at the port
   that this.emulatorPort was set to before the call (line 271) answers with
   the name of its AVD, or the command fails *)

SendTelnetCommand ==
    /\ Running("sendTelnetCommand")
    /\ \E d \in durations : Tick(d)
    /\ \/ ret' = From("sendTelnetCommand", Ok(avdOf[emulators[emIdx].port]))
       \/ \E err \in TelnetErrors : ret' = From("sendTelnetCommand", Err(err.msg))
    /\ stack' = Popped
    /\ UNCHANGED <<sessionVars, outerVars, op, adbVars, gdwrVars, portVars, adbHist,
                   restarted, lastStdout, gdwrHist, killHist>>

----------------------------------------------------------------------------
(* getRunningAVD, lines 263-284 *)

GetAvdErrorMsg == "Error getting AVD. Original error: "
NoEmulatorsMsg == "No emulators connected"

\* getRunningAVD(name) is called by the last of callers: it calls
\* getConnectedEmulators, which calls getConnectedDevices
EnterGetRunningAVD(name, callers) ==
    /\ avdName' = name
    /\ emulators' = <<>> /\ emIdx' = 0
    /\ avdPc' = "emulators"
    /\ stack' = callers \o <<"getRunningAVD", "getConnectedEmulators", "getConnectedDevices">>
    /\ ret' = NoRet
    /\ lastStdout' = Undefined

CallGetRunningAVD(name) ==
    /\ Idle
    /\ Len(picked) < MaxSelections
    /\ op' = "getRunningAVD"
    /\ EnterGetRunningAVD(name, stack)
    /\ presence' = "none"
    /\ execCount' = 0 /\ execLog' = <<>> /\ recovery' = <<>> /\ restarted' = FALSE
    /\ prevOutcome' = "none" /\ sinceListing' = <<>> /\ checkedAt' = 0
    /\ elapsed' = 0 /\ waited' = 0
    /\ killResult' = "none" /\ killFailLogged' = FALSE
    /\ UNCHANGED <<sessionVars, suspended, loopVars, adbVars, gdwrVars, portVars>>

\* the catch of lines 281-282
getRunningAVDCatch(msg) ==
    /\ ret' = From("getRunningAVD", errorAndThrow(<<GetAvdErrorMsg>> \o msg))
    /\ stack' = Popped
    /\ avdPc' = "done"

\* lines 271-272 for the emulator at place i
askEmulator(ems, i) ==
    /\ setEmulatorPort(ems[i].port)
    /\ emIdx' = i
    /\ stack' = Append(stack, "sendTelnetCommand")
    /\ avdPc' = "telnet"
    /\ ret' = NoRet

\* an emulator that runs the AVD name is among the emulators listed
Listed(name, r) ==
    /\ r.status = "ok"
    /\ \E i \in 1..Len(r.val) : avdOf[r.val[i].port] = name

\* getConnectedEmulators has returned or thrown
GetRunningAVDEmulators ==
    /\ Running("getRunningAVD") /\ avdPc = "emulators"
    /\ presence' = IF presence # "absent" /\ Listed(avdName, ret) THEN "present" ELSE "absent"
    /\ IF ret.status = "err"
       THEN getRunningAVDCatch(ret.msg) /\ UNCHANGED <<emulators, emIdx, emulatorPort>>
       ELSE IF Len(ret.val) < 1
       THEN getRunningAVDCatch(<<NoEmulatorsMsg>>) /\ UNCHANGED <<emulators, emIdx, emulatorPort>>
       ELSE emulators' = ret.val /\ askEmulator(ret.val, 1)
    /\ UNCHANGED <<configVars, defaultArgs, curDeviceId, picked, avdName, suspended,
                   loopVars, op, adbVars, gdwrVars, elapsed, waited, portVars, adbHist,
                   restarted, lastStdout, gdwrHist, killHist>>

\* sendTelnetCommand has returned or thrown
GetRunningAVDName ==
    /\ Running("getRunningAVD") /\ avdPc = "telnet"
    /\ presence' = IF ret.status = "err" /\ avdOf[emulators[emIdx].port] = avdName
                   THEN "absent" ELSE presence
    /\ IF ret.status = "err"
       THEN getRunningAVDCatch(ret.msg) /\ UNCHANGED <<targetVars, emIdx>>
       ELSE IF avdName = ret.val
       THEN /\ setDeviceId(emulators[emIdx].udid)
            /\ ret' = From("getRunningAVD", Ok(<<emulators[emIdx]>>))
            /\ stack' = Popped
            /\ avdPc' = "done"
            /\ UNCHANGED <<emulatorPort, emIdx>>
       ELSE IF emIdx < Len(emulators)
       THEN askEmulator(emulators, emIdx + 1) /\ UNCHANGED <<defaultArgs, curDeviceId, picked>>
       ELSE \* return null
            /\ ret' = From("getRunningAVD", Ok(<<>>))
            /\ stack' = Popped
            /\ avdPc' = "done"
            /\ UNCHANGED <<targetVars, emIdx>>
    /\ UNCHANGED <<configVars, avdName, emulators, suspended, loopVars, op,
                   adbVars, gdwrVars, elapsed, waited, portVars, adbHist, restarted,
                   lastStdout, gdwrHist, killHist>>

----------------------------------------------------------------------------
(* getRunningAVDWithRetry, lines 286-306 *)

CouldNotFindMsg(name) == <<"Could not find ">> \o name \o <<" emulator.">>
GetAvdRetryErrorMsg == "Error getting AVD with retry. Original error: "

\* avdName.replace('@', ''): the first "@" is taken out
removeAt(name) ==
    LET i == IndexOf(name, "@")
    IN  IF i = 0 THEN name ELSE SubSeq(name, 1, i - 1) \o SubSeq(name, i + 1, Len(name))

\* line 289, w ms after the start: (Date.now() - start) < timeoutMs
avdDeadlineOpen(w, t) == w < t

\* the top of the loop of getRunningAVDWithRetry(name, t), w ms after the
\* start, with the functions of callers awaiting it: getRunningAVD is called,
\* or lines 302-304 throw
searchOrGiveUp(name, t, w, callers) ==
    IF avdDeadlineOpen(w, t)
    THEN /\ EnterGetRunningAVD(removeAt(name), Append(callers, "getRunningAVDWithRetry"))
         /\ avdRetryPc' = "getRunningAVD"
    ELSE /\ ret' = From("getRunningAVDWithRetry",
                        errorAndThrow(<<GetAvdRetryErrorMsg>> \o CouldNotFindMsg(name)))
         /\ stack' = callers
         /\ avdRetryPc' = "done"
         /\ UNCHANGED <<avdName, emulators, emIdx, avdPc, lastStdout>>

\* getRunningAVDWithRetry(name, t) is called by the last of callers
EnterGetRunningAVDWithRetry(name, t, callers) ==
    /\ retryAvdName' = name
    /\ avdTimeoutMs' = t
    /\ waited' = 0
    /\ presence' = "none"
    /\ searchOrGiveUp(name, t, 0, callers)

CallGetRunningAVDWithRetry(name, t) ==
    /\ Idle
    /\ Len(picked) < MaxSelections
    /\ op' = "getRunningAVDWithRetry"
    /\ EnterGetRunningAVDWithRetry(name, t, stack)
    /\ execCount' = 0 /\ execLog' = <<>> /\ recovery' = <<>> /\ restarted' = FALSE
    /\ prevOutcome' = "none" /\ sinceListing' = <<>> /\ checkedAt' = 0
    /\ elapsed' = 0
    /\ killResult' = "none" /\ killFailLogged' = FALSE
    /\ UNCHANGED <<sessionVars, suspended, pollVars, laterVars, adbVars, gdwrVars, portVars>>

\* getRunningAVD has returned or thrown: the emulator found is returned, or
\* sleep(200) is called
GetRunningAVDWithRetryGot ==
    /\ Running("getRunningAVDWithRetry") /\ avdRetryPc = "getRunningAVD"
    /\ IF ret.status = "ok" /\ ret.val # <<>>
       THEN /\ ret' = From("getRunningAVDWithRetry", ret)
            /\ stack' = Popped
            /\ avdRetryPc' = "done"
       ELSE /\ avdRetryPc' = "sleep"
            /\ UNCHANGED <<ret, stack>>
    /\ UNCHANGED <<sessionVars, avdVars, retryAvdName, avdTimeoutMs, suspended, pollVars,
                   laterVars, op, adbVars,
                   gdwrVars, elapsed, waited, portVars, adbHist, restarted, lastStdout,
                   gdwrHist, killHist>>

\* sleep(200) has ended: the top of the loop
GetRunningAVDWithRetrySleep ==
    /\ Running("getRunningAVDWithRetry") /\ avdRetryPc = "sleep"
    /\ Tick(CoolDownMs)
    /\ searchOrGiveUp(retryAvdName, avdTimeoutMs, waited + CoolDownMs, Popped)
    /\ UNCHANGED <<sessionVars, presence, retryAvdName, avdTimeoutMs, suspended, pollVars,
                   laterVars, op, adbVars, gdwrVars, portVars,
                   adbHist, restarted, gdwrHist, killHist>>

----------------------------------------------------------------------------
(* isDeviceConnected(): whether a device is connected, or the question fails *)

ConnectedErrors == { [msg |-> <<"Error while getting connected devices.">>] }

IsDeviceConnected ==
    /\ Running("isDeviceConnected")
    /\ \E d \in durations : Tick(d)
    /\ \/ \E b \in {"true", "false"} : ret' = From("isDeviceConnected", Ok(<<b>>))
       \/ \E err \in ConnectedErrors : ret' = From("isDeviceConnected", Err(err.msg))
    /\ stack' = Popped
    /\ UNCHANGED <<sessionVars, outerVars, op, adbVars, gdwrVars, portVars, adbHist,
                   restarted, lastStdout, gdwrHist, killHist>>

----------------------------------------------------------------------------
(* shell, lines 184-195 *)

NotConnectedMsg == "No device connected, cannot run adb shell command "

\* cmd.join(' ')
RECURSIVE joinSpace(_)
joinSpace(items) ==
    IF Len(items) = 0 THEN <<>>
    ELSE IF Len(items) = 1 THEN <<items[1]>>
    ELSE <<items[1], SP>> \o joinSpace(Tail(items))

\* adbExec(c) is called by the last of callers with a command and no opts
EnterAdbExec(c, callers) ==
    /\ cmd' = c
    /\ tries' = 0
    /\ e' = NoError
    /\ execCount' = 0
    /\ ret' = NoRet
    /\ stack' = callers \o <<"adbExec">>
    /\ adbPc' = "execFunc"

\* shell(items) is called by the last of callers: it calls isDeviceConnected
EnterShell(items, callers) ==
    /\ shellCmd' = items
    /\ shellPc' = "connected"
    /\ stack' = callers \o <<"shell", "isDeviceConnected">>
    /\ ret' = NoRet

\* isDeviceConnected has returned or thrown: lines 185-194
ShellConnected ==
    /\ Running("shell") /\ shellPc = "connected"
    /\ IF ret.status = "err"
       THEN /\ ret' = From("shell", ret)
            /\ stack' = Popped
            /\ shellPc' = "done"
            /\ UNCHANGED <<adbVars, execCount>>
       ELSE IF ret.val = <<"false">>
       THEN /\ ret' = From("shell", Err(<<NotConnectedMsg, "\"">> \o joinSpace(shellCmd)
                                            \o <<"\"">>))
            /\ stack' = Popped
            /\ shellPc' = "done"
            /\ UNCHANGED <<adbVars, execCount>>
       ELSE /\ EnterAdbExec(Arr(<<"shell">> \o shellCmd), stack)
            /\ optsTimeout' = DefaultExecTimeout
            /\ shellPc' = "adbExec"
    /\ UNCHANGED <<sessionVars, avdVars, suspended, avdRetryVars, shellCmd, readyVars, trace,
                   laterVars, op, gdwrVars, elapsed, waited, portVars, execLog, recovery,
                   restarted, lastStdout, gdwrHist, killHist>>

\* adbExec has returned or thrown: so does shell
ShellDone ==
    /\ Running("shell") /\ shellPc = "adbExec"
    /\ ret' = From("shell", ret)
    /\ stack' = Popped
    /\ shellPc' = "done"
    /\ UNCHANGED <<sessionVars, avdVars, suspended, avdRetryVars, shellCmd, readyVars, trace,
                   laterVars, op, adbVars, gdwrVars, elapsed, waited, portVars, adbHist,
                   restarted, lastStdout, gdwrHist, killHist>>

----------------------------------------------------------------------------
(* waitForEmulatorReady, lines 355-370 *)

\* sleep(3000)
BootPollMs == 3000
NotReadyMsg == "Emulator not ready"
BootAnim == <<"getprop", "init.svc.bootanim">>

\* what is recorded of a step: what it was, the Date.now() - start at which it
\* ended and what was returned or thrown to it
Event(ev) == [ev |-> ev, at |-> waited, val |-> ret]
EventAt(ev, w) == [ev |-> ev, at |-> w, val |-> NoRet]

\* stdout.indexOf('stopped') > -1
bootanimStopped(stdout) == IndexOf(stdout, "stopped") > 0

\* the test of the while
readyDeadlineOpenLate(w, t) == w <= t
readyDeadlineOpen(w, t) == w < t

\* the top of the loop, w ms after start: one more poll, or line 369
pollOrGiveUp(t, w, callers) ==
    IF readyDeadlineOpen(w, t)
    THEN /\ EnterShell(BootAnim, callers \o <<"waitForEmulatorReady">>)
         /\ readyPc' = "shell"
    ELSE /\ ret' = From("waitForEmulatorReady", errorAndThrow(<<NotReadyMsg>>))
         /\ stack' = callers
         /\ readyPc' = "done"
         /\ UNCHANGED shellVars

\* waitForEmulatorReady(t) is called by the last of callers
EnterWaitForEmulatorReady(t, callers) ==
    /\ readyTimeoutMs' = t
    /\ waited' = 0
    /\ pollOrGiveUp(t, 0, callers)

CallWaitForEmulatorReady(t) ==
    /\ Idle
    /\ op' = "waitForEmulatorReady"
    /\ EnterWaitForEmulatorReady(t, stack)
    /\ trace' = <<>>
    /\ execCount' = 0 /\ execLog' = <<>> /\ recovery' = <<>> /\ restarted' = FALSE
    /\ prevOutcome' = "none" /\ sinceListing' = <<>> /\ checkedAt' = 0
    /\ elapsed' = 0 /\ lastStdout' = Undefined
    /\ killResult' = "none" /\ killFailLogged' = FALSE
    /\ UNCHANGED <<sessionVars, avdVars, suspended, avdRetryVars, laterVars, adbVars,
                   gdwrVars, portVars>>

\* shell has returned or thrown: lines 360-367
WaitForEmulatorReadyPolled ==
    /\ Running("waitForEmulatorReady") /\ readyPc = "shell"
    /\ trace' = Append(trace, Event("poll"))
    /\ IF ret.status = "ok" /\ bootanimStopped(ret.val)
       THEN /\ ret' = From("waitForEmulatorReady", Ok(Undefined))
            /\ stack' = Popped
            /\ readyPc' = "done"
       ELSE /\ readyPc' = "sleep"
            /\ UNCHANGED <<ret, stack>>
    /\ UNCHANGED <<sessionVars, avdVars, suspended, avdRetryVars, shellVars, readyTimeoutMs,
                   laterVars, op, adbVars, gdwrVars, elapsed, waited, portVars, adbHist,
                   restarted, lastStdout, gdwrHist, killHist>>

\* sleep(3000) has ended: the top of the loop
WaitForEmulatorReadySleep ==
    /\ Running("waitForEmulatorReady") /\ readyPc = "sleep"
    /\ Tick(BootPollMs)
    /\ trace' = Append(trace, EventAt("sleep", waited + BootPollMs))
    /\ pollOrGiveUp(readyTimeoutMs, waited + BootPollMs, Popped)
    /\ UNCHANGED <<sessionVars, avdVars, suspended, avdRetryVars, readyTimeoutMs, laterVars,
                   op, adbVars, gdwrVars, portVars, adbHist, restarted, lastStdout, gdwrHist,
                   killHist>>

----------------------------------------------------------------------------
(* getSdkBinaryPath("emulator"): the path of the binary, or it is not found *)

BinaryErrors == { [msg |-> <<"Could not find emulator in the SDK">>] }

GetSdkBinaryPath ==
    /\ Running("getSdkBinaryPath")
    /\ \/ ret' = From("getSdkBinaryPath", Ok(<<"/sdk/tools/emulator">>))
       \/ \E err \in BinaryErrors : ret' = From("getSdkBinaryPath", Err(err.msg))
    /\ stack' = Popped
    /\ UNCHANGED <<sessionVars, outerVars, op, adbVars, gdwrVars, elapsed, waited, portVars,
                   adbHist, restarted, lastStdout, gdwrHist, killHist>>

(* proc.start(0): the emulator process is spawned, or spawning it fails *)

SpawnErrors == { [msg |-> <<"spawn ENOENT">>] }

ProcStart ==
    /\ Running("proc.start")
    /\ \/ ret' = From("proc.start", Ok(Undefined))
       \/ \E err \in SpawnErrors : ret' = From("proc.start", Err(err.msg))
    /\ stack' = Popped
    /\ UNCHANGED <<sessionVars, outerVars, op, adbVars, gdwrVars, elapsed, waited, portVars,
                   adbHist, restarted, lastStdout, gdwrHist, killHist>>

----------------------------------------------------------------------------
(* launchAVD, lines 324-353 *)

\* the process handle launchAVD returns
Proc == <<"proc">>

\* lines 329-331
stripAt(name) == IF name # <<>> /\ Head(name) = "@" THEN Tail(name) ELSE name

\* what launchAVD throws is what the call it awaited threw
launchFailed(thrown) ==
    /\ ret' = From("launchAVD", thrown)
    /\ stack' = Popped
    /\ launchPc' = "done"
    /\ UNCHANGED <<avdVars, avdRetryVars, shellVars, readyVars, lastStdout, waited>>

\* line 351
launchWaitForEmulatorReady ==
    /\ EnterWaitForEmulatorReady(avdReadyTimeout, stack)
    /\ launchPc' = "ready"
    /\ UNCHANGED <<avdVars, avdRetryVars, lastStdout>>

\* retry(retryTimes, getRunningAVDWithRetry, avdName, avdLaunchTimeout) after n
\* attempts, of which the last one threw `thrown` if there was one: retry
\* calls the function while it made fewer than retryTimes attempts; it throws
\* what the last attempt threw, and returns null when it made no attempt
retryRegistration(thrown, n) ==
    IF n < retryTimes
    THEN /\ launchTries' = n + 1
         /\ EnterGetRunningAVDWithRetry(launchAvdName, avdLaunchTimeout, stack)
         /\ launchPc' = "registration"
         /\ UNCHANGED <<shellVars, readyVars>>
    ELSE IF n = 0
    THEN launchWaitForEmulatorReady /\ UNCHANGED launchTries
    ELSE /\ launchFailed(thrown)
         /\ UNCHANGED launchTries

\* launchAVD(name, avdArgs, language, locale, lt, rt, n) is called: it calls
\* getSdkBinaryPath
CallLaunchAVD(name, lt, rt, n) ==
    /\ Idle
    /\ Len(picked) < MaxSelections
    /\ op' = "launchAVD"
    /\ launchAvdName' = name
    /\ avdLaunchTimeout' = lt /\ avdReadyTimeout' = rt /\ retryTimes' = n
    /\ launchTries' = 0
    /\ launchPc' = "binary"
    /\ stack' = <<"launchAVD", "getSdkBinaryPath">>
    /\ ret' = NoRet
    /\ trace' = <<>>
    /\ NewCall
    /\ UNCHANGED <<sessionVars, avdVars, suspended, avdRetryVars, shellVars, readyVars,
                   wfdVars, rebootVars, lsResult, adbVars, gdwrVars, portVars>>

\* getSdkBinaryPath has returned or thrown: lines 329-346
LaunchAVDBinary ==
    /\ Running("launchAVD") /\ launchPc = "binary"
    /\ IF ret.status = "err"
       THEN launchFailed(ret) /\ UNCHANGED launchAvdName
       ELSE /\ launchAvdName' = stripAt(launchAvdName)
            /\ stack' = Append(stack, "proc.start")
            /\ launchPc' = "start"
            /\ ret' = NoRet
            /\ UNCHANGED <<avdVars, avdRetryVars, shellVars, readyVars, lastStdout, waited>>
    /\ UNCHANGED <<sessionVars, suspended, trace, avdLaunchTimeout, avdReadyTimeout,
                   retryTimes, launchTries, wfdVars, rebootVars, lsResult, op, adbVars,
                   gdwrVars, elapsed, portVars, adbHist, restarted, gdwrHist, killHist>>

\* proc.start(0) has returned or thrown: the output of the process is
\* listened to, which is not awaited, and the first search is started
LaunchAVDStarted ==
    /\ Running("launchAVD") /\ launchPc = "start"
    /\ IF ret.status = "err"
       THEN launchFailed(ret) /\ UNCHANGED <<launchTries, trace>>
       ELSE /\ trace' = Append(trace, Event("started"))
            /\ retryRegistration(ret, 0)
    /\ UNCHANGED <<sessionVars, suspended, launchAvdName, avdLaunchTimeout, avdReadyTimeout,
                   retryTimes, wfdVars, rebootVars, lsResult, op, adbVars, gdwrVars,
                   elapsed, portVars, adbHist, restarted, gdwrHist, killHist>>

\* getRunningAVDWithRetry has returned or thrown
LaunchAVDRegistered ==
    /\ Running("launchAVD") /\ launchPc = "registration"
    /\ trace' = Append(trace, Event("search"))
    /\ IF ret.status = "err"
       THEN retryRegistration(ret, launchTries)
       ELSE launchWaitForEmulatorReady /\ UNCHANGED launchTries
    /\ UNCHANGED <<sessionVars, suspended, launchAvdName, avdLaunchTimeout, avdReadyTimeout,
                   retryTimes, wfdVars, rebootVars, lsResult, op, adbVars, gdwrVars,
                   elapsed, portVars, adbHist, restarted, gdwrHist, killHist>>

\* waitForEmulatorReady has returned or thrown
LaunchAVDReady ==
    /\ Running("launchAVD") /\ launchPc = "ready"
    /\ IF ret.status = "err"
       THEN launchFailed(ret)
       ELSE /\ ret' = From("launchAVD", Ok(Proc))
            /\ stack' = Popped
            /\ launchPc' = "done"
            /\ UNCHANGED <<avdVars, avdRetryVars, shellVars, readyVars, lastStdout, waited>>
    /\ UNCHANGED <<sessionVars, suspended, trace, launchAvdName, avdLaunchTimeout,
                   avdReadyTimeout, retryTimes, launchTries, wfdVars, rebootVars, lsResult,
                   op, adbVars, gdwrVars, elapsed, portVars, adbHist, restarted, gdwrHist,
                   killHist>>

----------------------------------------------------------------------------
(* ping(): the device answers, or the probe fails *)

PingErrors == { [msg |-> <<"Ping failed">>] }

Ping ==
    /\ Running("ping")
    /\ \E d \in durations : Tick(d)
    /\ \/ ret' = From("ping", Ok(<<"true">>))
       \/ \E err \in PingErrors : ret' = From("ping", Err(err.msg))
    /\ stack' = Popped
    /\ UNCHANGED <<sessionVars, outerVars, op, adbVars, gdwrVars, portVars, adbHist,
                   restarted, lastStdout, gdwrHist, killHist>>

----------------------------------------------------------------------------
(* waitForDevice, lines 372-387 *)

\* let retries = 3
WfdRetries == 3
WaitForDeviceCmd == Str("wait-for-device")
WfdErrorMsg == "Error in waiting for device. Original error: "
WfdRetryingMsg == ". Retrying by restarting by ADB"

\* timeoutSecs/retries * 1000, of a number of seconds that 3 divides
timeoutSlice(secs) == (secs \div WfdRetries) * 1000

\* line 377: an attempt of retry begins
waitForDeviceAttempt ==
    /\ EnterAdbExec(WaitForDeviceCmd, stack)
    /\ optsTimeout' = IF timeoutSlice(appDeviceReadyTimeout) = 0 THEN DefaultExecTimeout
                      ELSE timeoutSlice(appDeviceReadyTimeout)
    /\ wfdPc' = "adbExec"

\* the catch of lines 379-384 begins
waitForDeviceCatch ==
    /\ wfdErr' = ret
    /\ stack' = Append(stack, "restartAdb")
    /\ wfdPc' = "restartAdb"
    /\ ret' = NoRet

\* retry(retries, ...) after n attempts, of which the last one threw `thrown`
wfdRetryCatch(thrown, n) ==
    IF n >= WfdRetries
    THEN /\ ret' = From("waitForDevice", thrown)
         /\ stack' = Popped
         /\ wfdPc' = "done"
         /\ UNCHANGED <<adbVars, execCount, wfdTries>>
    ELSE /\ wfdTries' = n + 1
         /\ waitForDeviceAttempt

CallWaitForDevice(secs) ==
    /\ Idle
    /\ op' = "waitForDevice"
    /\ appDeviceReadyTimeout' = secs
    /\ wfdTries' = 1
    /\ wfdErr' = NoRet
    /\ EnterAdbExec(WaitForDeviceCmd, <<"waitForDevice">>)
    /\ optsTimeout' = IF timeoutSlice(secs) = 0 THEN DefaultExecTimeout
                      ELSE timeoutSlice(secs)
    /\ wfdPc' = "adbExec"
    /\ trace' = <<>>
    /\ execLog' = <<>> /\ recovery' = <<>> /\ restarted' = FALSE
    /\ prevOutcome' = "none" /\ sinceListing' = <<>> /\ checkedAt' = 0
    /\ elapsed' = 0 /\ waited' = 0 /\ lastStdout' = Undefined
    /\ killResult' = "none" /\ killFailLogged' = FALSE
    /\ UNCHANGED <<sessionVars, avdVars, suspended, avdRetryVars, shellVars, readyVars,
                   launchVars, rebootVars, lsResult, gdwrVars, portVars>>

\* adbExec('wait-for-device') has returned or thrown
WaitForDeviceWaited ==
    /\ Running("waitForDevice") /\ wfdPc = "adbExec"
    /\ trace' = Append(trace, Event("wait-for-device"))
    /\ IF ret.status = "ok"
       THEN /\ stack' = Append(stack, "ping")
            /\ wfdPc' = "ping"
            /\ ret' = NoRet
            /\ UNCHANGED wfdErr
       ELSE waitForDeviceCatch
    /\ UNCHANGED <<sessionVars, avdVars, suspended, avdRetryVars, shellVars, readyVars,
                   launchVars, rebootVars, lsResult, appDeviceReadyTimeout, wfdTries, op,
                   adbVars, gdwrVars, elapsed, waited, portVars, adbHist, restarted,
                   lastStdout, gdwrHist, killHist>>

\* ping has returned or thrown
WaitForDevicePinged ==
    /\ Running("waitForDevice") /\ wfdPc = "ping"
    /\ trace' = Append(trace, Event("ping"))
    /\ IF ret.status = "ok"
       THEN /\ ret' = From("waitForDevice", Ok(Undefined))
            /\ stack' = Popped
            /\ wfdPc' = "done"
            /\ UNCHANGED wfdErr
       ELSE waitForDeviceCatch
    /\ UNCHANGED <<sessionVars, avdVars, suspended, avdRetryVars, shellVars, readyVars,
                   launchVars, rebootVars, lsResult, appDeviceReadyTimeout, wfdTries, op,
                   adbVars, gdwrVars, elapsed, waited, portVars, adbHist, restarted,
                   lastStdout, gdwrHist, killHist>>

\* restartAdb has returned: getConnectedDevices is called
WaitForDeviceRestarted ==
    /\ Running("waitForDevice") /\ wfdPc = "restartAdb"
    /\ trace' = Append(trace, Event("restartAdb"))
    /\ stack' = Append(stack, "getConnectedDevices")
    /\ wfdPc' = "getConnectedDevices"
    /\ ret' = NoRet
    /\ UNCHANGED <<sessionVars, avdVars, suspended, avdRetryVars, shellVars, readyVars,
                   launchVars, rebootVars, lsResult, appDeviceReadyTimeout, wfdTries, wfdErr,
                   op, adbVars, gdwrVars, elapsed, waited, portVars, adbHist, restarted,
                   lastStdout, gdwrHist, killHist>>

\* getConnectedDevices has returned or thrown: the attempt throws what it
\* threw, or the error of line 382
WaitForDeviceListed ==
    /\ Running("waitForDevice") /\ wfdPc = "getConnectedDevices"
    /\ trace' = Append(trace, Event("getConnectedDevices"))
    /\ wfdRetryCatch(IF ret.status = "err" THEN ret
                     ELSE errorAndThrow(<<WfdErrorMsg>> \o wfdErr.msg \o <<WfdRetryingMsg>>),
                     wfdTries)
    /\ UNCHANGED <<sessionVars, avdVars, suspended, avdRetryVars, shellVars, readyVars,
                   launchVars, rebootVars, lsResult, appDeviceReadyTimeout, wfdErr, op,
                   gdwrVars, elapsed, waited, portVars, execLog, recovery, restarted,
                   lastStdout, gdwrHist, killHist>>

----------------------------------------------------------------------------
(* setDeviceProperty(name, value) and getDeviceProperty(name): the property
   is written, or read as a text, or the primitive fails *)

PropertyErrors == { [msg |-> <<"Error accessing the device property">>] }
\* what sys.boot_completed is read as
BootValues == { <<"1">>, <<"0">>, <<>> }

SetDeviceProperty ==
    /\ Running("setDeviceProperty")
    /\ \/ ret' = From("setDeviceProperty", Ok(Undefined))
       \/ \E err \in PropertyErrors : ret' = From("setDeviceProperty", Err(err.msg))
    /\ stack' = Popped
    /\ UNCHANGED <<sessionVars, outerVars, op, adbVars, gdwrVars, elapsed, waited, portVars,
                   adbHist, restarted, lastStdout, gdwrHist, killHist>>

GetDeviceProperty ==
    /\ Running("getDeviceProperty")
    /\ \/ \E v \in BootValues : ret' = From("getDeviceProperty", Ok(v))
       \/ \E err \in PropertyErrors : ret' = From("getDeviceProperty", Err(err.msg))
    /\ stack' = Popped
    /\ UNCHANGED <<sessionVars, outerVars, op, adbVars, gdwrVars, elapsed, waited, portVars,
                   adbHist, restarted, lastStdout, gdwrHist, killHist>>

----------------------------------------------------------------------------
(* reboot, lines 389-402 *)

\* B.delay(2000)
SettleMs == 2000
\* retryInterval(90, 1000, ...)
BootReadTimes == 90
BootReadMs == 1000
\* log.errorAndthrow is not a function of the logger: calling it throws
NotAFunctionMsg == "log.errorAndthrow is not a function"

\* the steps of reboot that were made, and the read made last
Steps == SelectSeq(trace, LAMBDA x : x.ev # "read")

\* what reboot throws is what the call it awaited threw
rebootFailed(thrown) ==
    /\ ret' = From("reboot", thrown)
    /\ stack' = Popped
    /\ rebootPc' = "done"

\* retry made n attempts
readsExhaustedLate(n) == n > BootReadTimes
readsExhausted(n) == n >= BootReadTimes

\* an attempt of retryInterval begins: line 395
readBootCompleted ==
    /\ bootReads' = bootReads + 1
    /\ stack' = Append(stack, "getDeviceProperty")
    /\ rebootPc' = "read"
    /\ ret' = NoRet

CallReboot ==
    /\ Idle
    /\ op' = "reboot"
    /\ EnterShell(<<"stop">>, <<"reboot">>)
    /\ rebootPc' = "stop"
    /\ bootReads' = 0
    /\ trace' = <<>>
    /\ NewCall
    /\ UNCHANGED <<sessionVars, avdVars, suspended, avdRetryVars, readyVars, launchVars,
                   wfdVars, lsResult, adbVars, gdwrVars, portVars>>

\* shell(['stop']) has returned or thrown: B.delay(2000) is called
RebootStopped ==
    /\ Running("reboot") /\ rebootPc = "stop"
    /\ IF ret.status = "err"
       THEN rebootFailed(ret) /\ UNCHANGED trace
       ELSE /\ trace' = Append(trace, Event("stop"))
            /\ rebootPc' = "delay"
            /\ UNCHANGED <<ret, stack>>
    /\ UNCHANGED <<sessionVars, avdVars, suspended, avdRetryVars, shellVars, readyVars,
                   launchVars, wfdVars, lsResult, bootReads, op, adbVars, gdwrVars, elapsed,
                   waited, portVars, adbHist, restarted, lastStdout, gdwrHist, killHist>>

\* B.delay(2000) has ended: setDeviceProperty('sys.boot_completed', 0) is called
RebootSettled ==
    /\ Running("reboot") /\ rebootPc = "delay"
    /\ trace' = Append(trace, EventAt("delay", SettleMs))
    /\ stack' = Append(stack, "setDeviceProperty")
    /\ rebootPc' = "setDeviceProperty"
    /\ ret' = NoRet
    /\ UNCHANGED <<sessionVars, avdVars, suspended, avdRetryVars, shellVars, readyVars,
                   launchVars, wfdVars, lsResult, bootReads, op, adbVars, gdwrVars, elapsed,
                   waited, portVars, adbHist, restarted, lastStdout, gdwrHist, killHist>>

\* setDeviceProperty has returned or thrown: shell(['start']) is called
RebootReset ==
    /\ Running("reboot") /\ rebootPc = "setDeviceProperty"
    /\ IF ret.status = "err"
       THEN rebootFailed(ret) /\ UNCHANGED <<trace, shellVars>>
       ELSE /\ trace' = Append(trace, Event("setDeviceProperty"))
            /\ EnterShell(<<"start">>, stack)
            /\ rebootPc' = "start"
    /\ UNCHANGED <<sessionVars, avdVars, suspended, avdRetryVars, readyVars, launchVars,
                   wfdVars, lsResult, bootReads, op, adbVars, gdwrVars, elapsed, waited,
                   portVars, adbHist, restarted, lastStdout, gdwrHist, killHist>>

\* shell(['start']) has returned or thrown: retryInterval makes its first attempt
RebootStarted ==
    /\ Running("reboot") /\ rebootPc = "start"
    /\ IF ret.status = "err"
       THEN rebootFailed(ret) /\ UNCHANGED <<trace, bootReads>>
       ELSE /\ trace' = Append(trace, Event("start"))
            /\ readBootCompleted
    /\ UNCHANGED <<sessionVars, avdVars, suspended, avdRetryVars, shellVars, readyVars,
                   launchVars, wfdVars, lsResult, op, adbVars, gdwrVars, elapsed, waited,
                   portVars, adbHist, restarted, lastStdout, gdwrHist, killHist>>

\* getDeviceProperty has returned or thrown: lines 396-400, and the catch of
\* retryInterval, which sleeps unless the attempt was the last one
RebootRead ==
    /\ Running("reboot") /\ rebootPc = "read"
    /\ trace' = Steps \o <<Event("read")>>
    /\ IF ret.status = "ok" /\ ret.val = <<"1">>
       THEN /\ ret' = From("reboot", Ok(Undefined))
            /\ stack' = Popped
            /\ rebootPc' = "done"
       ELSE IF readsExhausted(bootReads)
       THEN rebootFailed(IF ret.status = "err" THEN ret ELSE Err(<<NotAFunctionMsg>>))
       ELSE /\ rebootPc' = "interval"
            /\ UNCHANGED <<ret, stack>>
    /\ UNCHANGED <<sessionVars, avdVars, suspended, avdRetryVars, shellVars, readyVars,
                   launchVars, wfdVars, lsResult, bootReads, op, adbVars, gdwrVars, elapsed,
                   waited, portVars, adbHist, restarted, lastStdout, gdwrHist, killHist>>

\* sleep(1000) of retryInterval has ended: the next attempt
RebootInterval ==
    /\ Running("reboot") /\ rebootPc = "interval"
    /\ Tick(BootReadMs)
    /\ readBootCompleted
    /\ UNCHANGED <<sessionVars, avdVars, suspended, avdRetryVars, shellVars, readyVars,
                   trace, launchVars, wfdVars, lsResult, op, adbVars, gdwrVars,
                   portVars, adbHist, restarted, lastStdout, gdwrHist, killHist>>

----------------------------------------------------------------------------
(* ls and fileExists, lines 404-415 *)

NoSuchFile == "No such file"

\* l => l.indexOf("No such file") === -1
withoutNoSuchFileExact(line) == line # <<NoSuchFile>>
withoutNoSuchFile(line) == IndexOf(line, NoSuchFile) = 0

\* lines 411-414
lsLines(stdout) ==
    LET lines == Split(stdout, LF)
        trimmed == [i \in 1..Len(lines) |-> Trim(lines[i])]
        nonBlank == SelectSeq(trimmed, LAMBDA l : l # <<>>)
    IN  SelectSeq(nonBlank, withoutNoSuchFile)

\* ls(remotePath) is called by the last of callers: it calls shell
EnterLs(remotePath, callers) ==
    /\ EnterShell(<<"ls", remotePath>>, callers \o <<"ls">>)
    /\ trace' = <<>>
    /\ lsResult' = NoRet

CallLs(remotePath) ==
    /\ Idle
    /\ op' = "ls"
    /\ EnterLs(remotePath, stack)
    /\ NewCall
    /\ UNCHANGED <<sessionVars, avdVars, suspended, avdRetryVars, readyVars, launchVars,
                   wfdVars, rebootVars, adbVars, gdwrVars, portVars>>

CallFileExists(remotePath) ==
    /\ Idle
    /\ op' = "fileExists"
    /\ EnterLs(remotePath, <<"fileExists">>)
    /\ NewCall
    /\ UNCHANGED <<sessionVars, avdVars, suspended, avdRetryVars, readyVars, launchVars,
                   wfdVars, rebootVars, adbVars, gdwrVars, portVars>>

\* shell has returned or thrown: ls returns the lines kept, or throws the same
LsDone ==
    /\ Running("ls")
    /\ trace' = Append(trace, Event("shell"))
    /\ ret' = From("ls", IF ret.status = "err" THEN ret ELSE Ok(lsLines(ret.val)))
    /\ lsResult' = ret'
    /\ stack' = Popped
    /\ UNCHANGED <<sessionVars, avdVars, suspended, avdRetryVars, shellVars, readyVars,
                   launchVars, wfdVars, rebootVars, op, adbVars, gdwrVars, elapsed, waited,
                   portVars, adbHist, restarted, lastStdout, gdwrHist, killHist>>

\* ls has returned or thrown: line 406
FileExistsDone ==
    /\ Running("fileExists")
    /\ ret' = From("fileExists",
                   IF ret.status = "err" THEN ret
                   ELSE Ok(<<IF Len(ret.val) > 0 THEN "true" ELSE "false">>))
    /\ stack' = Popped
    /\ UNCHANGED <<sessionVars, outerVars, op, adbVars, gdwrVars, elapsed, waited,
                   portVars, adbHist, restarted, lastStdout, gdwrHist, killHist>>

----------------------------------------------------------------------------
(* Operations in progress at once: an operation that stands at an await may
   be overtaken by another one, which runs until its own next await. The
   clock of an operation that waits is not advanced. *)

\* the operation that is running, as it is kept while another one runs
Saved ==
    [stack |-> stack, op |-> op, ret |-> ret, cmd |-> cmd, optsTimeout |-> optsTimeout,
     tries |-> tries, adbPc |-> adbPc, e |-> e, timeoutMs |-> timeoutMs,
     elapsed |-> elapsed, waited |-> waited, gdwrPc |-> gdwrPc,
     execCount |-> execCount, execLog |-> execLog, lastStdout |-> lastStdout,
     recovery |-> recovery, restarted |-> restarted, prevOutcome |-> prevOutcome,
     sinceListing |-> sinceListing, checkedAt |-> checkedAt, killResult |-> killResult,
     killFailLogged |-> killFailLogged, avdName |-> avdName, emulators |-> emulators,
     emIdx |-> emIdx, avdPc |-> avdPc, presence |-> presence]

\* a control flow that has called nothing yet
Fresh ==
    [stack |-> <<>>, op |-> "none", ret |-> NoRet, cmd |-> Str(""), optsTimeout |-> 0,
     tries |-> 0, adbPc |-> "done", e |-> NoError, timeoutMs |-> 0,
     elapsed |-> 0, waited |-> 0, gdwrPc |-> "done",
     execCount |-> 0, execLog |-> <<>>, lastStdout |-> Undefined,
     recovery |-> <<>>, restarted |-> FALSE, prevOutcome |-> "none",
     sinceListing |-> <<>>, checkedAt |-> 0, killResult |-> "none",
     killFailLogged |-> FALSE, avdName |-> <<>>, emulators |-> <<>>,
     emIdx |-> 0, avdPc |-> "done", presence |-> "none"]

Load(c) ==
    /\ stack' = c.stack /\ op' = c.op /\ ret' = c.ret /\ cmd' = c.cmd
    /\ optsTimeout' = c.optsTimeout /\ tries' = c.tries /\ adbPc' = c.adbPc /\ e' = c.e
    /\ timeoutMs' = c.timeoutMs /\ elapsed' = c.elapsed /\ waited' = c.waited
    /\ gdwrPc' = c.gdwrPc /\ execCount' = c.execCount /\ execLog' = c.execLog
    /\ lastStdout' = c.lastStdout /\ recovery' = c.recovery /\ restarted' = c.restarted
    /\ prevOutcome' = c.prevOutcome /\ sinceListing' = c.sinceListing
    /\ checkedAt' = c.checkedAt /\ killResult' = c.killResult
    /\ killFailLogged' = c.killFailLogged /\ avdName' = c.avdName
    /\ emulators' = c.emulators /\ emIdx' = c.emIdx /\ avdPc' = c.avdPc
    /\ presence' = c.presence

\* the caller starts another operation while one stands at an await, and none
\* waits yet
Spawn ==
    /\ ~Idle
    /\ suspended = <<>>
    /\ suspended' = Append(suspended, Saved)
    /\ Load(Fresh)
    /\ UNCHANGED <<sessionVars, loopVars, portVars>>

\* the await of a waiting operation ends: it runs on, and the one that was
\* running waits, unless it has ended
Resume ==
    /\ \E i \in 1..Len(suspended) :
            /\ Load(suspended[i])
            /\ suspended' =
                   IF Idle
                   THEN SubSeq(suspended, 1, i - 1) \o SubSeq(suspended, i + 1, Len(suspended))
                   ELSE [suspended EXCEPT ![i] = Saved]
    /\ UNCHANGED <<sessionVars, loopVars, portVars>>

----------------------------------------------------------------------------
(* Specifications *)

\* what the caller may call
Call ==
    \/ \E c \in AdbExecCalls : CallAdbExec(c[1], c[2])
    \/ \E t \in GdwrTimeouts : CallGetDevicesWithRetry(t)
    \/ CallGetConnectedDevices
    \/ CallGetConnectedEmulators
    \/ CallRestartAdb

\* what the functions that were called do
Step ==
    \/ AdbExecRun
    \/ AdbExecReconnect
    \/ AdbExecRediscovered
    \/ GetDevices
    \/ GotDevices
    \/ CoolDown
    \/ RestartAdb
    \/ GetConnectedDevicesExec(DeviceOutputs)
    \/ GetConnectedEmulatorsDone

Next == Call \/ Step

\* a session
Spec == Init /\ [][Next]_vars

\* getPortFromEmulatorString on every text of IdStrings
PortInit ==
    NewSession /\ emStr \in IdStrings /\ durations = ExecDurations /\ avdOf = OneAvd
    /\ faults = ExecErrors
PortNext == CallGetPortFromEmulatorString
PortSpec == PortInit /\ [][PortNext]_vars

\* getConnectedDevices and getConnectedEmulators on every output of AllOutputs
DiscoveryNext ==
    \/ CallGetConnectedDevices
    \/ CallGetConnectedEmulators
    \/ GetConnectedDevicesExec(AllOutputs)
    \/ GetConnectedEmulatorsDone
DiscoverySpec == Init /\ [][DiscoveryNext]_vars

\* getDevicesWithRetry alone, where every process execution and every sleep
\* that was started ends
RediscoveryNext ==
    \/ \E t \in GdwrTimeouts : CallGetDevicesWithRetry(t)
    \/ GetDevices
    \/ GotDevices
    \/ CoolDown
    \/ RestartAdb
    \/ GetConnectedDevicesExec(DeviceOutputs)
RediscoverySpec ==
    /\ Init
    /\ [][RediscoveryNext]_vars
    /\ WF_vars(GetDevices) /\ WF_vars(GotDevices) /\ WF_vars(CoolDown)
    /\ WF_vars(RestartAdb) /\ WF_vars(GetConnectedDevicesExec(DeviceOutputs))

\* the session where every process execution takes the longest time
SlowInit == NewSession /\ emStr = <<>> /\ durations = {MaxExecMs} /\ avdOf = OneAvd
    /\ faults = ExecErrors

\* setDevice and adbExec
SelectionNext ==
    \/ \E d \in Selectable : CallSetDevice(d)
    \/ \E c \in AdbExecCalls : CallAdbExec(c[1], c[2])
    \/ AdbExecRun
    \/ AdbExecReconnect
    \/ AdbExecRediscovered
    \/ GetDevices
    \/ GotDevices
    \/ CoolDown
    \/ RestartAdb
    \/ GetConnectedDevicesExec(DeviceOutputs)
SelectionSpec == SlowInit /\ [][SelectionNext]_vars

\* setDevice and getEmulatorPort, on every output of AllOutputs
EmulatorPortNext ==
    \/ \E d \in Selectable : CallSetDevice(d)
    \/ CallGetEmulatorPort
    \/ GetConnectedDevicesExec(AllOutputs)
    \/ GetEmulatorPortDone
EmulatorPortSpec == SlowInit /\ [][EmulatorPortNext]_vars

\* setDevice, getRunningAVD and adbExec, in progress at once: an adbExec that
\* stands at an await is overtaken by selections, and so is a getRunningAVD
InterleavedNext ==
    \/ CallSetDevice([udid |-> <<"HT4A1JT00001">>, state |-> <<"device">>])
    \/ CallGetRunningAVD(<<"Nexus5">>)
    \/ suspended = <<>> /\ CallAdbExec(Arr(<<"shell", "start">>), 0)
    \/ AdbExecRun
    \/ AdbExecReconnect
    \/ AdbExecRediscovered
    \/ GetDevices
    \/ GotDevices
    \/ CoolDown
    \/ RestartAdb
    \/ GetConnectedDevicesExec(TwoEmulators)
    \/ GetConnectedEmulatorsDone
    \/ GetRunningAVDEmulators
    \/ GetRunningAVDName
    \/ SendTelnetCommand
    \/ Spawn
    \/ Resume
InterleavedInit ==
    NewSession /\ emStr = <<>> /\ durations = {MaxExecMs} /\ avdOf = TwoAvds
    /\ faults = ExecErrors
InterleavedSpec == InterleavedInit /\ [][InterleavedNext]_vars

\* the session whose emulators run any of the AVDs
AvdInit ==
    NewSession /\ emStr = <<>> /\ durations = ExecDurations
               /\ avdOf \in [EmulatorPorts -> AvdNames]
    /\ faults = ExecErrors

\* getRunningAVD and getRunningAVDWithRetry, after a setDevice or not
AvdNext ==
    \/ \E d \in Selectable : CallSetDevice(d)
    \/ CallGetRunningAVD(<<"Nexus5">>)
    \/ \E name \in AvdRequests, t \in AvdTimeouts : CallGetRunningAVDWithRetry(name, t)
    \/ GetConnectedDevicesExec(EmulatorOutputs)
    \/ GetConnectedEmulatorsDone
    \/ GetRunningAVDEmulators
    \/ GetRunningAVDName
    \/ SendTelnetCommand
    \/ GetRunningAVDWithRetryGot
    \/ GetRunningAVDWithRetrySleep
AvdSpec == AvdInit /\ [][AvdNext]_vars

\* waitForEmulatorReady, where a poll takes the longest time
ReadyNext ==
    \/ \E t \in ReadyTimeouts : CallWaitForEmulatorReady(t)
    \/ IsDeviceConnected
    \/ ShellConnected
    \/ ShellDone
    \/ AdbExecRun
    \/ AdbExecReconnect
    \/ AdbExecRediscovered
    \/ GetDevices
    \/ GotDevices
    \/ CoolDown
    \/ RestartAdb
    \/ GetConnectedDevicesExec(DeviceOutputs)
    \/ WaitForEmulatorReadyPolled
    \/ WaitForEmulatorReadySleep
ReadySpec == SlowInit /\ [][ReadyNext]_vars

\* launchAVD, where every process execution takes the longest time and the
\* emulator listed second runs the AVD that is launched
LaunchNext ==
    \/ \E name \in AvdRequests, lt \in AvdTimeouts, rt \in ReadyTimeouts, n \in LaunchRetries :
            CallLaunchAVD(name, lt, rt, n)
    \/ GetSdkBinaryPath
    \/ LaunchAVDBinary
    \/ ProcStart
    \/ LaunchAVDStarted
    \/ LaunchAVDRegistered
    \/ LaunchAVDReady
    \/ GetRunningAVDWithRetryGot
    \/ GetRunningAVDWithRetrySleep
    \/ GetRunningAVDEmulators
    \/ GetRunningAVDName
    \/ SendTelnetCommand
    \/ GetConnectedEmulatorsDone
    \/ GetConnectedDevicesExec(TwoEmulators)
    \/ IsDeviceConnected
    \/ ShellConnected
    \/ ShellDone
    \/ AdbExecRun
    \/ AdbExecReconnect
    \/ AdbExecRediscovered
    \/ GetDevices
    \/ GotDevices
    \/ CoolDown
    \/ RestartAdb
    \/ WaitForEmulatorReadyPolled
    \/ WaitForEmulatorReadySleep
LaunchSpec == InterleavedInit /\ [][LaunchNext]_vars

\* waitForDevice, where every process execution takes the longest time
WaitNext ==
    \/ \E secs \in WfdTimeouts : CallWaitForDevice(secs)
    \/ WaitForDeviceWaited
    \/ Ping
    \/ WaitForDevicePinged
    \/ WaitForDeviceRestarted
    \/ WaitForDeviceListed
    \/ AdbExecRun
    \/ AdbExecReconnect
    \/ AdbExecRediscovered
    \/ GetDevices
    \/ GotDevices
    \/ CoolDown
    \/ RestartAdb
    \/ GetConnectedDevicesExec(TwoEmulators)
TwoErrorsInit ==
    NewSession /\ emStr = <<>> /\ durations = {MaxExecMs} /\ avdOf = OneAvd
    /\ faults = TwoErrors
WaitSpec == TwoErrorsInit /\ [][WaitNext]_vars

\* reboot, where every process execution takes the longest time
RebootNext ==
    \/ CallReboot
    \/ RebootStopped
    \/ RebootSettled
    \/ SetDeviceProperty
    \/ RebootReset
    \/ RebootStarted
    \/ GetDeviceProperty
    \/ RebootRead
    \/ RebootInterval
    \/ IsDeviceConnected
    \/ ShellConnected
    \/ ShellDone
    \/ AdbExecRun
    \/ AdbExecReconnect
    \/ AdbExecRediscovered
    \/ GetDevices
    \/ GotDevices
    \/ CoolDown
    \/ RestartAdb
    \/ GetConnectedDevicesExec(TwoEmulators)
RebootSpec == TwoErrorsInit /\ [][RebootNext]_vars

\* ls and fileExists, where every process execution takes the longest time
LsNext ==
    \/ \E remotePath \in LsPaths : CallLs(remotePath)
    \/ \E remotePath \in LsPaths : CallFileExists(remotePath)
    \/ LsDone
    \/ FileExistsDone
    \/ IsDeviceConnected
    \/ ShellConnected
    \/ ShellDone
    \/ AdbExecRun
    \/ AdbExecReconnect
    \/ AdbExecRediscovered
    \/ GetDevices
    \/ GotDevices
    \/ CoolDown
    \/ RestartAdb
    \/ GetConnectedDevicesExec(TwoEmulators)
LsSpec == TwoErrorsInit /\ [][LsNext]_vars

----------------------------------------------------------------------------
(* Properties of adbExec *)

\* adbExec was called with a command and has returned or thrown
AdbExecEnded == Idle /\ op = "adbExec" /\ ret.from = "adbExec" /\ execLog # <<>>
AdbExecFailed == AdbExecEnded /\ ret.status = "err"

\* execFunc is about to be called again
NextAttemptStarts == Running("adbExec") /\ adbPc = "execFunc" /\ tries >= 1

\* the text of an error with message m contains pattern, in any case of letters
TextContains(m, pattern) ==
    \E i \in 1..Len(m) : toLowerCase(m[i]) = pattern

\* the classes of failure of the specification: ConnectionLost and Fatal
ConnectionLost(m) ==
    \/ TextContains(<<"Error: ">> \o m, "protocol fault (no status)")
    \/ TextContains(<<"Error: ">> \o m, "error: device not found")
Fatal(m) == ~ConnectionLost(m)

LastExec == execLog[Len(execLog)]

\* t occurs in s as one piece
Contains(s, t) ==
    \E i \in 0..(Len(s) - Len(t)) : SubSeq(s, i + 1, i + Len(t)) = t

\* C1: a call of adbExec with a command executes it at most 2 times, never
\* again after an execution that succeeded, and returns the cleaned stdout of
\* the first execution that succeeded.
C1_AtMostTwoExecutions ==
    op = "adbExec" =>
        /\ execCount <= 2
        /\ Len(execLog) = execCount
        /\ \A i \in 1..Len(execLog) : execLog[i].ok => i = Len(execLog)
        /\ (execLog # <<>> /\ LastExec.ok) =>
                /\ AdbExecEnded
                /\ ret.status = "ok"
                /\ ret.val = cleanStdout(LastExec.text)
        /\ (AdbExecEnded /\ ret.status = "ok") => LastExec.ok

\* the second execution succeeded, and its stdout had a linker warning
C1_Witness ==
    /\ AdbExecEnded /\ ret.status = "ok"
    /\ execCount = 2
    /\ ret.val # LastExec.text
    /\ ret.val = <<"ok">>

\* C2: a failed execution whose error text contains "protocol fault (no
\* status)" or "error: device not found", in any case of letters, is followed
\* by a sleep of 1000 ms and then by exactly one pass of getDevicesWithRetry,
\* which has ended when the next attempt starts; a failed execution whose text
\* contains neither is followed by no sleep, no rediscovery and no restart.
C2_RecoveryByClass ==
    (NextAttemptStarts \/ AdbExecFailed) =>
        /\ ~LastExec.ok
        /\ IF ConnectionLost(LastExec.text)
           THEN recovery = <<SleepEv(1000), CallEv("getDevicesWithRetry"),
                             CallEv("returned")>>
           ELSE recovery = <<>> /\ ~restarted

\* the next attempt starts after a rediscovery that restarted the bridge
C2_Witness ==
    /\ NextAttemptStarts
    /\ ConnectionLost(LastExec.text)
    /\ Len(recovery) = 3
    /\ restarted

C4_LastFailureSurfaced ==
    AdbExecFailed =>
        /\ ret.msg[1] = AdbExecErrorMsg
        /\ Contains(ret.msg, LastExec.text)

----------------------------------------------------------------------------
(* Properties of getDevicesWithRetry and restartAdb *)

GdwrReturned == ret.from = "getDevicesWithRetry" /\ ret.status = "ok"
GdwrThrew == ret.from = "getDevicesWithRetry" /\ ret.status = "err"

\* a listing of getDevicesWithRetry is running
ListingStarted == Running("getConnectedDevices") /\ Caller = "getDevicesWithRetry"

\* C5: getDevicesWithRetry returns only a list that is not empty; a listing
\* that is not the first of the pass comes after a listing that was empty or
\* threw, and what was done between the two is one restartAdb and then one
\* sleep of 200 ms; the only error it throws is the one of line 118.
C5_RestartThenCoolDown ==
    /\ GdwrReturned => Len(ret.val) >= 1
    /\ (ListingStarted /\ prevOutcome # "none") =>
            /\ prevOutcome \in {"empty", "threw"}
            /\ sinceListing = <<CallEv("restartAdb"), SleepEv(200)>>
    /\ (InStack("getDevicesWithRetry") /\ prevOutcome \in {"empty", "threw"}) =>
            \E n \in 0..2 :
                sinceListing = SubSeq(<<CallEv("restartAdb"), SleepEv(200)>>, 1, n)
    /\ GdwrThrew => ret.msg = <<NoDeviceMsg>>

\* a listing starts after one that threw
C5_Witness ==
    /\ ListingStarted
    /\ prevOutcome = "threw"
    /\ Len(sinceListing) = 2

\* what one iteration of getDevices takes at most: a listing, a kill-server
\* and the cool down
IterationMs == MaxExecMs + MaxExecMs + CoolDownMs

\* C6, the part that holds in every state: no listing is started after the
\* deadline, the error of line 118 is thrown at the first check after it and
\* ends the call, and the call ends at most one iteration after the deadline
C6_Deadline ==
    /\ ListingStarted => elapsed <= timeoutMs
    /\ InStack("getDevicesWithRetry") => checkedAt <= timeoutMs
    /\ GdwrThrew =>
            /\ ~InStack("getDevicesWithRetry")
            /\ elapsed > timeoutMs
            /\ checkedAt <= timeoutMs
            /\ elapsed - checkedAt <= IterationMs
            /\ elapsed <= timeoutMs + IterationMs

----------------------------------------------------------------------------
(* Properties of the listing of devices and emulators *)

\* `adb devices` has printed lastStdout and getConnectedDevices has ended
ListingEnded == ret.from = "getConnectedDevices" /\ lastStdout # Undefined

\* the lines of an output after its header line
EntriesAfterHeader(out) ==
    Tail(Split(SubSeq(out, IndexOf(out, Header), Len(out)), LF))

\* the fields id and state of an entry
EntryId(line) == Split(line, TAB)[1]
EntryState(line) ==
    IF Len(Split(line, TAB)) >= 2 THEN Split(line, TAB)[2] ELSE Undefined

\* what the specification has the listing skip: blank lines, the header line,
\* daemon notices, and entries that report the state offline
IsBlank(line) == \A i \in 1..Len(line) : line[i] \in Whitespace
IsHeaderLine(line) == IndexOf(line, Header) # 0
IsDaemonNotice(line) == IndexOf(line, DaemonNotice) # 0
ReportsOffline(line) == IndexOf(EntryState(line), Offline) # 0

IsEndpoint(line) ==
    ~IsBlank(line) /\ ~IsHeaderLine(line) /\ ~IsDaemonNotice(line) /\ ~ReportsOffline(line)

RECURSIVE Endpoints(_)
Endpoints(lines) ==
    IF lines = <<>> THEN <<>>
    ELSE (IF IsEndpoint(Head(lines))
          THEN <<[udid |-> EntryId(Head(lines)), state |-> EntryState(Head(lines))]>>
          ELSE <<>>) \o Endpoints(Tail(lines))

\* C7, as claimed: getConnectedDevices throws if and only if the output has
\* no header "List of devices"; otherwise it returns, in their order, the
\* entries after the header that are not blank, are no daemon notice and do
\* not report the state offline, each split on the tab into id and state.
C7_ExactlyTheOnlineEntries ==
    ListingEnded =>
        IF IndexOf(lastStdout, Header) = 0
        THEN ret.status = "err"
        ELSE /\ ret.status = "ok"
             /\ ret.val = Endpoints(EntriesAfterHeader(lastStdout))

\* C8, as claimed: for a text of the form emulator-<n>, n a text of decimal
\* digits, getPortFromEmulatorString returns the number n, and for every
\* other text it returns false.
HasEmulatorForm(s) ==
    /\ Len(s) >= 2
    /\ s[1] = "emulator-"
    /\ \A i \in 2..Len(s) : s[i] \in Digits

C8_PortOnlyOfEmulatorForm ==
    op = "getPortFromEmulatorString" =>
        IF HasEmulatorForm(emStr)
        THEN portResult = parseInt(Tail(emStr))
        ELSE portResult = NoPort

\* C9, as claimed: getConnectedEmulators returns, in their order, the devices
\* listed whose id has a port, port 0 included, each with that port.
HasPort(device) == getPortFromEmulatorString(device.udid) # NoPort

RECURSIVE WithPorts(_)
WithPorts(devices) ==
    IF devices = <<>> THEN <<>>
    ELSE (IF HasPort(Head(devices))
          THEN <<[udid |-> Head(devices).udid, state |-> Head(devices).state,
                  port |-> getPortFromEmulatorString(Head(devices).udid)]>>
          ELSE <<>>) \o WithPorts(Tail(devices))

C9_EveryDeviceWithPort ==
    (ret.from = "getConnectedEmulators" /\ ret.status = "ok") =>
        ret.val = WithPorts(parseDevices(lastStdout).val)

----------------------------------------------------------------------------
(* Properties of the session target *)

\* s is the start of t
IsPrefix(s, t) == Len(s) <= Len(t) /\ SubSeq(t, 1, Len(s)) = s

\* the scoping pairs "-s", id of a sequence of ids
RECURSIVE ScopePairs(_)
ScopePairs(ids) ==
    IF ids = <<>> THEN <<>> ELSE <<<<"-s">>, Head(ids)>> \o ScopePairs(Tail(ids))

\* the value of the last "-s" of an argument list
LastScope(args) ==
    LET at == {i \in 1..(Len(args) - 1) : args[i] = <<"-s">>}
    IN  IF at = {} THEN Null
        ELSE args[(CHOOSE i \in at : \A j \in at : j <= i) + 1]

\* C11, in every state: defaultArgs is one pair "-s", id for every selection,
\* in the order of the selections; deviceId is the id selected last and
\* emulatorPort the port of that id; adbExec gives every execution
\* defaultArgs followed by the command.
C11_Target ==
    /\ defaultArgs = ScopePairs(picked)
    /\ Len(defaultArgs) = 2 * Len(picked)
    /\ LastScope(defaultArgs) = curDeviceId
    /\ IF picked = <<>>
       THEN curDeviceId = Null /\ emulatorPort = NullPort
       ELSE /\ curDeviceId = picked[Len(picked)]
            /\ emulatorPort = getPortFromEmulatorString(curDeviceId)
    /\ op = "adbExec" =>
            \A i \in 1..Len(execLog) : execLog[i].args = defaultArgs \o Texts(cmd.items)

\* C11: after any sequence of setDevice calls deviceId is the id selected
\* last, emulatorPort is the port of that id, and every command of adbExec
\* is given the prefix defaultArgs, to which every selection appends the two
\* tokens "-s", id and from which nothing is removed or reordered.
C11_AppendOnlyScoping ==
    /\ []C11_Target
    /\ [][/\ IsPrefix(defaultArgs, defaultArgs')
          /\ defaultArgs' # defaultArgs =>
                defaultArgs' = defaultArgs \o <<<<"-s">>, curDeviceId'>>]_vars

\* a command is executed after a second selection, of another device
C11_Witness ==
    /\ op = "adbExec" /\ execLog # <<>>
    /\ Len(picked) = 2 /\ picked[1] # picked[2]
    /\ LastExec.args = <<<<"-s">>, picked[1], <<"-s">>, picked[2], <<"shell">>, <<"ls">>>>

\* the operations of the session: the one that runs and the ones that wait
Flows == <<Saved>> \o suspended

\* C12: under every interleaving of setDevice, getRunningAVD and adbExec, the
\* id of the last "-s" of defaultArgs is curDeviceId wherever an operation can
\* resume, and every execution of adbExec was given arguments whose last
\* "-s" is the curDeviceId of the moment it read them.
C12_NoHalfUpdatedTarget ==
    /\ LastScope(defaultArgs) = curDeviceId
    /\ \A k \in 1..Len(Flows) : \A i \in 1..Len(Flows[k].execLog) :
            LastScope(Flows[k].execLog[i].args) = Flows[k].execLog[i].deviceId

\* an adbExec that had executed its command before a getRunningAVD selected a
\* device executes it again afterwards, for the device selected
C12_Witness ==
    /\ op = "adbExec" /\ Len(execLog) = 2
    /\ execLog[1].deviceId = Null
    /\ execLog[2].deviceId = <<"emulator-", "5", "5", "5", "6">>
    /\ suspended # <<>>

\* getEmulatorPort has returned or thrown
GetEmulatorPortEnded == Idle /\ op = "getEmulatorPort" /\ ret.from = "getEmulatorPort"

\* the emulators of the list discovered: the devices whose id has a port
DiscoveredEmulators ==
    IF lastStdout # Undefined /\ parseDevices(lastStdout).status = "ok"
    THEN WithPorts(parseDevices(lastStdout).val)
    ELSE <<>>

\* C13, as claimed: with no port set, getEmulatorPort makes one discovery and
\* returns the port of the first emulator of the list discovered, whatever
\* precedes it, and throws exactly when the list has no emulator; with a port
\* set it returns that port and discovers nothing; the target is left as it was.
C13_FirstEmulatorPort ==
    GetEmulatorPortEnded =>
        IF emulatorPort # NullPort
        THEN ret.status = "ok" /\ ret.val = emulatorPort /\ lastStdout = Undefined
        ELSE IF DiscoveredEmulators = <<>>
        THEN ret.status = "err"
        ELSE ret.status = "ok" /\ ret.val = DiscoveredEmulators[1].port

----------------------------------------------------------------------------
(* Properties of the search for a running AVD *)

\* getRunningAVD or getRunningAVDWithRetry has returned an emulator
AvdFound ==
    /\ ret.from \in {"getRunningAVD", "getRunningAVDWithRetry"}
    /\ ret.status = "ok" /\ ret.val # <<>>
AvdSearchFailed == ret.from = "getRunningAVDWithRetry" /\ ret.status = "err"

\* the name asked for, without the "@" it may start with
Requested(name) == IF name # <<>> /\ Head(name) = "@" THEN Tail(name) ELSE name

\* the places in the list discovered of the emulators that run the AVD name
Matching(name) == {i \in 1..Len(emulators) : avdOf[emulators[i].port] = name}

\* C15, as claimed: the emulator returned is the first of the list discovered
\* that runs the AVD asked for, and it is the device selected; the search ends
\* with the error of line 302, and never when every listing of the search
\* listed an emulator that runs the AVD asked for (whose console answered
\* whenever it was asked).
C15_FirstMatchWins ==
    /\ AvdFound =>
            /\ Matching(avdName) # {}
            /\ ret.val[1] = emulators[CHOOSE i \in Matching(avdName) :
                                          \A j \in Matching(avdName) : i <= j]
            /\ curDeviceId = ret.val[1].udid
            /\ emulatorPort = ret.val[1].port
            /\ LastScope(defaultArgs) = ret.val[1].udid
            /\ op = "getRunningAVDWithRetry" => avdName = Requested(retryAvdName)
    /\ AvdSearchFailed =>
            /\ ret.msg = <<GetAvdRetryErrorMsg>> \o CouldNotFindMsg(retryAvdName)
            /\ waited >= avdTimeoutMs
            /\ presence # "present"

\* ---------------------------------------------------------------------------
\* the target of the session between two calls

\* C20, as claimed: between two calls of setDevice and getRunningAVD, a session
\* that has a deviceId has the emulatorPort derived from that deviceId, and a
\* session in which no device was ever selected (no setDevice, no pass that
\* found its AVD) still has the target it was constructed with.
C20_PortOfDeviceId ==
    Idle =>
        /\ curDeviceId # Null =>
                emulatorPort = getPortFromEmulatorString(curDeviceId)
        /\ picked = <<>> =>
                /\ curDeviceId = Null
                /\ emulatorPort = NullPort
                /\ defaultArgs = <<>>

\* ---------------------------------------------------------------------------
\* waitForEmulatorReady

ReadyEnded == ret.from = "waitForEmulatorReady"
InReady == InStack("waitForEmulatorReady") \/ ReadyEnded

\* how a poll ended: it read a value that contains "stopped", it read another
\* value, or it threw
PollKind(x) ==
    IF x.ev = "sleep" THEN "sleep"
    ELSE IF x.val.status = "err" THEN "error"
    ELSE IF Contains(x.val.val, <<"stopped">>) THEN "stopped"
    ELSE "other"

\* the polls and sleeps of the wait in progress
PollEvents == SelectSeq(trace, LAMBDA x : x.ev \in {"poll", "sleep"})
Polls == [i \in 1..Len(PollEvents) |-> [ev |-> PollKind(PollEvents[i]), at |-> PollEvents[i].at]]

\* C16: waitForEmulatorReady succeeds at the first poll whose value contains
\* "stopped" and fails with 'Emulator not ready' at the first deadline check
\* that finds timeoutMs passed; every poll follows a deadline check that found
\* it not passed, and a poll that threw or read another value is followed by
\* the sleep of 3000 ms and the next deadline check.
C16_ReadyOrTimeout ==
    op = "waitForEmulatorReady" /\ InReady =>
        /\ \A i \in 1..Len(Polls) :
              /\ i < Len(Polls) => Polls[i].ev # "stopped"
              /\ Polls[i].ev = "sleep" =>
                    /\ i > 1 /\ Polls[i - 1].ev \in {"other", "error"}
                    /\ Polls[i].at >= Polls[i - 1].at + BootPollMs
              /\ Polls[i].ev # "sleep" =>
                    IF i = 1 THEN 0 < readyTimeoutMs
                    ELSE Polls[i - 1].ev = "sleep" /\ Polls[i - 1].at < readyTimeoutMs
        /\ Polls # <<>> /\ Polls[Len(Polls)].ev \in {"other", "error"} =>
              Running("waitForEmulatorReady") /\ readyPc = "sleep"
        /\ Polls # <<>> /\ Polls[Len(Polls)].ev = "stopped" =>
              ReadyEnded /\ ret.status = "ok"
        /\ ReadyEnded /\ ret.status = "ok" =>
              Polls # <<>> /\ Polls[Len(Polls)].ev = "stopped"
        /\ ReadyEnded /\ ret.status = "err" =>
              /\ ret.msg = <<NotReadyMsg>>
              /\ waited >= readyTimeoutMs
              /\ IF Polls = <<>> THEN readyTimeoutMs <= 0
                 ELSE /\ Polls[Len(Polls)].ev = "sleep"
                      /\ Polls[Len(Polls)].at >= readyTimeoutMs

\* a poll threw, the wait went on and the next poll read "stopped"
C16_Witness ==
    /\ op = "waitForEmulatorReady" /\ ReadyEnded /\ ret.status = "ok"
    /\ Len(Polls) = 3 /\ Polls[1].ev = "error"

\* ---------------------------------------------------------------------------
\* launchAVD

LaunchEnded == ret.from = "launchAVD"
InLaunch == op = "launchAVD" /\ (InStack("launchAVD") \/ LaunchEnded)

\* the registration searches that ended, and the places in trace of the polls
Searches == SelectSeq(trace, LAMBDA x : x.ev = "search")
PollPlaces == {i \in 1..Len(trace) : trace[i].ev = "poll"}
Registered(x) == x.ev = "search" /\ x.val.status = "ok" /\ x.val.val # <<>>

WaitEnded == ret.from = "waitForDevice"
InWait == op = "waitForDevice" /\ (InStack("waitForDevice") \/ WaitEnded)

\* the step at place i of trace is an attempt's call that threw
AttemptFailed(i) == trace[i].ev \in {"wait-for-device", "ping"} /\ trace[i].val.status = "err"
Attempts == SelectSeq(trace, LAMBDA x : x.ev = "wait-for-device")

\* the attempts of waitForDevice: at most 3, ping only after a wait-for-device
\* that succeeded, a failed attempt followed by restartAdb and then
\* getConnectedDevices before the next one, failure only after the third
WaitAttempts ==
    /\ Len(Attempts) <= WfdRetries
    /\ \A i \in 1..Len(trace) :
          /\ trace[i].ev = "ping" =>
                i > 1 /\ trace[i - 1].ev = "wait-for-device" /\ trace[i - 1].val.status = "ok"
          /\ trace[i].ev = "restartAdb" => i > 1 /\ AttemptFailed(i - 1)
          /\ trace[i].ev = "getConnectedDevices" => i > 1 /\ trace[i - 1].ev = "restartAdb"
          /\ (trace[i].ev = "wait-for-device" /\ i > 1) =>
                trace[i - 1].ev = "getConnectedDevices"
          /\ (AttemptFailed(i) /\ i = Len(trace)) => wfdPc = "restartAdb"
    /\ WaitEnded /\ ret.status = "err" =>
          /\ Len(Attempts) = WfdRetries
          /\ trace[Len(trace)].ev = "getConnectedDevices"
    /\ WaitEnded /\ ret.status = "ok" =>
          trace[Len(trace)].ev = "ping" /\ trace[Len(trace)].val.status = "ok"

\* C17, as claimed: waitForDevice makes at most 3 attempts and the command
\* wait-for-device is executed at most 3 times in a call, every time with the
\* timeout of a third of appDeviceReadyTimeout; ping comes only after a
\* wait-for-device that succeeded, a failed attempt is followed by restartAdb
\* and then getConnectedDevices, and the call fails only after the third.
C17_ThreeWaitCommands ==
    InWait =>
        /\ WaitAttempts
        /\ Len(execLog) <= WfdRetries
        /\ \A i \in 1..Len(execLog) :
              execLog[i].args[Len(execLog[i].args)] = <<"wait-for-device">>
        /\ InStack("adbExec") => optsTimeout = timeoutSlice(appDeviceReadyTimeout)

\* ---------------------------------------------------------------------------
\* reboot

RebootEnded == ret.from = "reboot"
InReboot == op = "reboot" /\ (InStack("reboot") \/ RebootEnded)

\* the steps of reboot before the polling, in their order
RebootOrder == <<"stop", "delay", "setDeviceProperty", "start">>
StepNames == [i \in 1..Len(Steps) |-> Steps[i].ev]
\* the reads of sys.boot_completed recorded: the last one, if one was made
Reads == SelectSeq(trace, LAMBDA x : x.ev = "read")
ReadBooted(x) == x.val.status = "ok" /\ x.val.val = <<"1">>

\* C18: reboot makes its steps in the order shell stop, delay of 2000 ms,
\* setDeviceProperty, shell start and then reads sys.boot_completed at most 90
\* times; it returns at the first read of "1", goes on after any other read,
\* and throws after the 90th read that was not "1"; when stop, the reset or
\* start throws, reboot throws and nothing is read.
C18_RebootSequence ==
    InReboot =>
        /\ IsPrefix(StepNames, RebootOrder)
        /\ \A i \in 1..Len(Steps) : Steps[i].ev = "delay" => Steps[i].at = SettleMs
        /\ bootReads <= BootReadTimes
        /\ bootReads > 0 => StepNames = RebootOrder
        /\ Len(Reads) = (IF bootReads = 0 \/ (bootReads = 1 /\ rebootPc = "read") THEN 0 ELSE 1)
        /\ (Reads # <<>> /\ ReadBooted(Reads[1])) => RebootEnded /\ ret.status = "ok"
        /\ RebootEnded /\ ret.status = "ok" => Reads # <<>> /\ ReadBooted(Reads[1])
        /\ RebootEnded /\ ret.status = "err" =>
              IF StepNames = RebootOrder
              THEN bootReads = BootReadTimes /\ Reads # <<>> /\ ~ReadBooted(Reads[1])
              ELSE bootReads = 0
        /\ rebootPc = "interval" =>
              Reads # <<>> /\ ~ReadBooted(Reads[1]) /\ bootReads < BootReadTimes

\* the reads "0", "0", "1": reboot returns after the third read
C18_Witness ==
    /\ InReboot /\ RebootEnded /\ ret.status = "ok"
    /\ bootReads = 3

\* ---------------------------------------------------------------------------
\* ls and fileExists

LsEnded == op = "ls" /\ ret.from = "ls"
FileExistsEnded == op = "fileExists" /\ ret.from = "fileExists"
\* the path given to ls, and what shell returned or threw to it
LsPath == shellCmd[2]
ShellResult == trace[Len(trace)].val

\* a line of the output is an entry: it is not blank and has no "No such file"
IsEntry(line) == Trim(line) # <<>> /\ ~Contains(line, <<NoSuchFile>>)
\* the entries of an output, trimmed, in their order
RECURSIVE EntriesOf(_)
EntriesOf(lines) ==
    IF lines = <<>> THEN <<>>
    ELSE (IF IsEntry(Head(lines)) THEN <<Trim(Head(lines))>> ELSE <<>>)
         \o EntriesOf(Tail(lines))

\* what ls returns is the entries of what shell returned, and fileExists is
\* true exactly when ls returned an entry
LsEntries ==
    /\ (LsEnded /\ ret.status = "ok") =>
          /\ ShellResult.status = "ok"
          /\ ret.val = EntriesOf(Split(ShellResult.val, LF))
    /\ FileExistsEnded =>
          /\ lsResult.from = "ls"
          /\ ret.status = lsResult.status
          /\ ret.status = "ok" => (ret.val = <<"true">>) = (Len(lsResult.val) > 0)
          /\ ret.status = "ok" => ret.val \in {<<"true">>, <<"false">>}

\* C19, as claimed: ls of a path that does not exist returns the empty
\* sequence and never throws; ls returns the trimmed non-blank lines without
\* "No such file", in order, and fileExists is true exactly when ls returns
\* an entry.
C19_LsNeverThrows ==
    /\ LsEntries
    /\ (LsEnded /\ LsPath = MissingPath) => (ret.status = "ok" /\ ret.val = <<>>)

\* C19, amended: ls of a path that does not exist returns the empty sequence
\* whenever shell returns the output of the command, and throws what shell
\* throws; ls returns the trimmed non-blank lines without "No such file", in
\* order, and fileExists is true exactly when ls returns an entry.
C19_LsOfWhatShellReturns ==
    /\ LsEntries
    /\ LsEnded =>
          /\ ret.status = ShellResult.status
          /\ ret.status = "err" => ret.msg = ShellResult.msg
          /\ (LsPath = MissingPath /\ ShellResult.status = "ok") => ret.val = <<>>

\* ls of the path that does not exist returned no entry, of an output of
\* shell that has the line with "No such file"
C19_Witness ==
    /\ LsEnded /\ LsPath = MissingPath /\ ret.status = "ok" /\ ret.val = <<>>
    /\ ShellResult.status = "ok" /\ Contains(ShellResult.val, <<NoSuchFile>>)

====
